---- MODULE Spec2Model ----
(***************************************************************************)
(* Model of the emart crawl-and-sync pipeline:                             *)
(*   emart_json.run_scraper            full crawler  -> result_json        *)
(*   emart_price_json.run_scraper      price crawler -> result_price_json  *)
(*   emart_non_price_json.run_scraper  other crawler -> result_non_price_json *)
(*   firebase_uploader.upload_json_to_firestore / update_price_history     *)
(*   main.scheduler_all / scheduler_price / tasks_stop / tasks_start       *)
(* Time is counted in ticks of _sleep_with_cancel (0.1 s).                 *)
(***************************************************************************)
EXTENDS Integers, Sequences, FiniteSets, TLC

\* ------------------------------------------------------------------ bounds
\* EMART_PAGE_CAP values range over 1..MaxPageCap.
MaxPageCap == 2
\* Ticks of one inter-page sleep (page_delay / tick).
PageDelayTicks == 2
\* Runs (scheduler jobs fired, run_* requests served) in one behaviour of Spec.
MaxJobs == 1
\* Calls of upload_json_to_firestore in one behaviour of SyncSpec.
MaxUploads == 2
\* Injected failures (store exceptions, init failure, OSError on remove) in one
\* behaviour.
MaxFaults == 1

\* ------------------------------------------------------------- the catalog
\* Category names, in the iteration order of categories.items().
Categories == <<"Fruits", "Vegetables">>

Kinds == {"all", "price", "non_price"}

\* The snapshot directory each crawler writes.
OutputDir(kind) ==
  CASE kind = "all" -> "result_json"
    [] kind = "price" -> "result_price_json"
    [] OTHER -> "result_non_price_json"

Dirs == {"result_json", "result_price_json", "result_non_price_json"}

\* What one <li> of a category page carries (the extractor's input).
Item(id, op, sp, name, img, soldout, ts) ==
  [id |-> id, original_price |-> op, selling_price |-> sp, product_name |-> name,
   image_url |-> img, href |-> "/item?itemId=" \o id, unit_price |-> "1ea",
   sold_out |-> soldout, now |-> ts]

ItemA1 == Item("A", "100", "90", "apple", "a.jpg", FALSE, "t1")
ItemA2 == Item("A", "100", "80", "apple", "a.jpg", FALSE, "t2")
ItemB == Item("B", "50", "50", "pear", "b.jpg", TRUE, "t1")
ItemE == Item("", "70", "70", "plum", "e.jpg", FALSE, "t1")

\* The item lists a fetched page may carry.
PageChoices == {<<>>, <<ItemA1, ItemE>>, <<ItemA2, ItemB, ItemB>>}

\* _has_next_page_by_dom(html): True, False or None, as the page's markup decides.
DomChoices == {"True", "False", "None"}

\* _absolutize_url for a site-relative href.
_absolutize_url(rawurl) == "https://emart.ssg.com" \o rawurl

\* scrape_emart_category_page of each crawler: one record per <li>. A field the
\* crawler does not write reads as None (dict.get) in the uploader.
ScrapeItem(kind, category_name, it) ==
  CASE kind = "all" ->
         [id |-> it.id, category |-> category_name, product_name |-> it.product_name,
          product_address |-> _absolutize_url(it.href),
          original_price |-> it.original_price, selling_price |-> it.selling_price,
          image_url |-> it.image_url, quantity |-> it.unit_price,
          out_of_stock |-> IF it.sold_out THEN "Y" ELSE "",
          last_updated |-> it.now]
    [] kind = "price" ->
         [id |-> it.id, category |-> "None", product_name |-> "None",
          product_address |-> "None",
          original_price |-> it.original_price, selling_price |-> it.selling_price,
          image_url |-> "None", quantity |-> it.unit_price,
          out_of_stock |-> IF it.sold_out THEN "Y" ELSE "N",
          last_updated |-> it.now]
    [] OTHER ->
         [id |-> it.id, category |-> category_name, product_name |-> it.product_name,
          product_address |-> _absolutize_url(it.href),
          original_price |-> "None", selling_price |-> "None",
          image_url |-> it.image_url, quantity |-> "None",
          out_of_stock |-> "None",
          last_updated |-> it.now]

scrape_emart_category_page(kind, category_name, items) ==
  [i \in 1..Len(items) |-> ScrapeItem(kind, category_name, items[i])]

\* ------------------------------------------------------------------- state
VARIABLES
  cancel_event,        \* main.CANCEL_EVENT
  files,               \* files[dir][category]: the snapshot file, if it exists
  \* --- run_scraper
  cpc,                 \* position of the crawler
  ckind,               \* which crawler runs
  cfg,                 \* start_page, end_page, page_cap, empty_page_stop, partial_save_every
  cat_idx,             \* index into Categories
  collected,           \* collected / all_scraped_products_for_category
  seen_ids,
  consecutive_empty,
  page_num,
  visited_pages,
  html,                \* the response in hand between the fetch and its extraction
  has_next,            \* _has_next_page_by_dom of the page just extracted, "unset" before
  remain,              \* _sleep_with_cancel: ticks left
  attempts,            \* retries the session.get in progress has used
  resp_status,         \* outcome of the latest attempt of the latest session.get
  \* --- history of the crawl (not read by the program)
  fetches,             \* session.get calls made for the current category
  raw,                 \* every record extracted for the current category, in order
  yields,              \* per page of the current category: was its deduplicated yield empty
  finalWrites,         \* final saves made for the current category
  breakReason,         \* why the page loop of the current category ended
  lastExit,            \* the category the crawler left last, and whether its file held the buffer
  endedOnCancel,       \* run_scraper returned because it saw the token set
  sig,                 \* where the crawler was when the token, still set, was set:
                       \* records extracted, next page to fetch, page in extraction
  \* --- upload_json_to_firestore
  upc,                 \* position of the uploader
  directory_path,
  json_files,          \* the glob result still to be processed, current file first
  products,            \* the loaded file
  ridx,                \* index of the next record of products
  counters,            \* the five *_count locals
  result,              \* the returned dict
  \* --- Firestore
  emart_price,         \* collection emart_price: one document per product id
  emart_product,       \* collection emart_product
  \* --- history of the upload (not read by the program)
  errInFile,           \* a store operation failed for a record of the current file
  removed,             \* the latest removal of this upload: none, clean, after-error
  lastObs,             \* per id: the last price observation synced, and its classification
  uploads,             \* calls of upload_json_to_firestore made so far
  notified,            \* requests this upload has sent to the embedding server
  sent,                \* those requests, in order: scheme, host, what became of it
  touched,             \* this upload has used the store, removed a file or notified
  faults,              \* failures injected so far
  \* --- scheduler_all / scheduler_price / scheduler_old
  jpc,                 \* position of the scheduler job
  job,                 \* "all", "price", "old" or "none"
  jobs,                \* jobs fired so far
  skipped,             \* of those, the ones that returned at their SKIP line
  \* --- the event loop serving the HTTP endpoints
  loop,                \* "free", or the run_* endpoint it is executing
  stop_req,            \* a POST /tasks/stop is waiting for the event loop
  manuals,             \* run_* requests served so far
  \* --- the .env file behind GET /env and POST /save_env
  dotenv,              \* the stored page keys and EMB_SERVER
  env_resp,            \* the latest save_env request and the status it was answered with
  \* --- two uploads running at once, each inside update_price_history
  writers              \* per upload: position, records still to sync, the document
                       \* it read, the entries it appended

crawlVars == <<cpc, ckind, cfg, cat_idx, collected, seen_ids, consecutive_empty,
               page_num, visited_pages, html, has_next, remain, attempts, resp_status>>
crawlHist == <<fetches, raw, yields, finalWrites, breakReason, lastExit, endedOnCancel>>
syncVars == <<upc, directory_path, json_files, products, ridx, counters, result>>
storeVars == <<emart_price, emart_product>>
syncHist == <<errInFile, removed, lastObs, uploads, notified, sent, touched, faults>>
schedVars == <<jpc, job, jobs, skipped>>
loopVars == <<loop, stop_req, manuals>>
envVars == <<dotenv, env_resp>>
coordVars == <<schedVars, loopVars, envVars, writers>>

vars == <<cancel_event, sig, files, crawlVars, crawlHist, syncVars, storeVars, syncHist,
          coordVars>>

\* A path of the file system: absent, or a file whose text is a complete JSON
\* document of these records, or a file whose text is not (yet) one.
NoFile == [exists |-> FALSE, complete |-> FALSE, data |-> <<>>]
File(data) == [exists |-> TRUE, complete |-> TRUE, data |-> data]

\* The file just after open(path, "w"): it exists and it is empty.
Truncated == [exists |-> TRUE, complete |-> FALSE, data |-> <<>>]

\* resp_status before any attempt, and for an attempt that got no response
\* (connection failure or timeout).
NoAttempt == -1
ConnFailure == 0

NoHtml == <<>>
NoExit == [cat |-> 0, saved |-> FALSE, reason |-> "none", writes |-> 0]
NoCfg == [start_page |-> 0, end_page |-> 0, page_cap |-> 0, empty_page_stop |-> 0,
          partial_save_every |-> 0, page_delay |-> 0]
NoSig == [len |-> 0, page |-> 0, late |-> FALSE]

\* _should_stop
_should_stop(ev) == ev

\* ------------------------------------------------------------- environment
\* The .env file read by load_dotenv(override=True) when a crawler starts. A page
\* key holds <<>> (the empty string) or <<n>> (the text of the integer n).
EnvChoices ==
  [EMART_START_PAGE : {<<1>>, <<2>>},
   EMART_END_PAGE : {<<>>, <<2>>},
   EMART_PAGE_CAP : 1..MaxPageCap,
   EMART_EMPTY_PAGE_STOP : {0, 1, 2},
   EMART_PARTIAL_SAVE_EVERY : {0, 1, 2}]

\* run_scraper (emart_json) lines 268-304: the parsed configuration.
ParseEnvAll(e) ==
  [start_page |-> IF e.EMART_START_PAGE = <<>> THEN 1
                  ELSE IF e.EMART_START_PAGE[1] < 1 THEN 1 ELSE e.EMART_START_PAGE[1],
   \* end_page 0 stands for None
   end_page |-> IF e.EMART_END_PAGE = <<>> THEN 0
                ELSE IF e.EMART_END_PAGE[1] <= 0 THEN 0 ELSE e.EMART_END_PAGE[1],
   page_cap |-> IF e.EMART_PAGE_CAP < 1 THEN 1 ELSE e.EMART_PAGE_CAP,
   empty_page_stop |-> e.EMART_EMPTY_PAGE_STOP,
   partial_save_every |-> e.EMART_PARTIAL_SAVE_EVERY,
   page_delay |-> PageDelayTicks]

\* run_scraper (price / non-price) lines 160-161: int() of both keys; int("")
\* raises ValueError.
EnvParsesPrice(e) == e.EMART_START_PAGE # <<>> /\ e.EMART_END_PAGE # <<>>

ParseEnvPrice(e) ==
  [start_page |-> e.EMART_START_PAGE[1],
   end_page |-> e.EMART_END_PAGE[1],
   page_cap |-> 0, empty_page_stop |-> 0, partial_save_every |-> 0,
   page_delay |-> PageDelayTicks]

\* ------------------------------------------------------- .env through the API
\* The largest page number a request or the file names.
MaxPage == 3

\* A text that int() rejects, such as "abc" or "1.5".
NotInteger == <<0, 0>>

IsIntText(t) == Len(t) = 1

\* Values a save_env request may carry for a page key.
PageTexts == {<<>>, NotInteger} \cup {<<n>> : n \in 0..MaxPage}

\* Values it may carry for EMB_SERVER: empty, a URL with an http scheme and a
\* host, a text that is not such a URL.
EmbTexts == {"", "http://emb.example", "emb.example"}

\* _is_http_url, main.py 61-66.
_is_http_url(url) == url = "http://emb.example"

EnvKeys == {"EMART_START_PAGE", "EMART_END_PAGE", "EMB_SERVER"}

\* The JSON bodies of POST /save_env: any subset of the keys (a key the body
\* does not carry is written with the empty value here and never read).
SaveEnvRequests ==
  {d \in [keys : SUBSET EnvKeys, EMART_START_PAGE : PageTexts, EMART_END_PAGE : PageTexts,
          EMB_SERVER : EmbTexts] :
     /\ "EMART_START_PAGE" \notin d.keys => d.EMART_START_PAGE = <<>>
     /\ "EMART_END_PAGE" \notin d.keys => d.EMART_END_PAGE = <<>>
     /\ "EMB_SERVER" \notin d.keys => d.EMB_SERVER = ""}

\* The .env file as save_env reads and writes it.
Dotenvs == [EMART_START_PAGE : PageTexts, EMART_END_PAGE : PageTexts,
            EMB_SERVER : {"", "http://emb.example"}]

\* The file of the docstring of run_scraper (emart_json 256-262).
DotenvAtStart == [EMART_START_PAGE |-> <<1>>, EMART_END_PAGE |-> <<>>, EMB_SERVER |-> ""]

NoResponse == [status |-> 0, data |-> [keys |-> {}, EMART_START_PAGE |-> <<>>,
                                       EMART_END_PAGE |-> <<>>, EMB_SERVER |-> ""]]

\* save_env lines 328-343: the request is answered 400 for its end page. The
\* end page is looked at only when the request carries the key.
EndPageRejected(data, env_dict, sp) ==
  /\ "EMART_END_PAGE" \in data.keys
  /\ data.EMART_END_PAGE # <<>>
  /\ \/ ~IsIntText(data.EMART_END_PAGE)
     \/ data.EMART_END_PAGE[1] < sp

\* save_env lines 299-378: the status of the answer and the file afterwards.
\* Every HTTPException is raised before the file is opened for writing (372).
\* The keys of lines 353-370 are copied as given and are not part of this state.
SaveEnvResult(env_dict, data) ==
  LET has_sp == "EMART_START_PAGE" \in data.keys
      sp_raw == data.EMART_START_PAGE
      cur_sp == env_dict.EMART_START_PAGE
      sp_bad == has_sp /\ (~IsIntText(sp_raw) \/ sp_raw[1] < 1)
      sp == IF has_sp THEN (IF IsIntText(sp_raw) THEN sp_raw[1] ELSE 1)
            ELSE IF IsIntText(cur_sp) THEN cur_sp[1] ELSE 1
      emb_bad == /\ "EMB_SERVER" \in data.keys
                 /\ data.EMB_SERVER # ""
                 /\ ~_is_http_url(data.EMB_SERVER)
      written == [EMART_START_PAGE |-> IF has_sp THEN <<sp>> ELSE cur_sp,
                  EMART_END_PAGE |-> IF "EMART_END_PAGE" \in data.keys
                                     THEN data.EMART_END_PAGE
                                     ELSE env_dict.EMART_END_PAGE,
                  EMB_SERVER |-> IF "EMB_SERVER" \in data.keys
                                 THEN data.EMB_SERVER
                                 ELSE env_dict.EMB_SERVER]
  IN IF sp_bad \/ EndPageRejected(data, env_dict, sp) \/ emb_bad
     THEN [status |-> 400, env |-> env_dict]
     ELSE [status |-> 200, env |-> written]

\* ---------------------------------------------------------------- crawler
CategoryName == Categories[cat_idx]

\* lines 362-371: dedupe by id against seen_ids, keeping the first occurrence.
RECURSIVE DedupeFrom(_, _, _)
DedupeFrom(items, seen, i) ==
  IF i > Len(items) THEN [new_items |-> <<>>, seen |-> seen]
  ELSE LET pid == items[i].id IN
       IF pid # "" /\ pid \in seen
       THEN DedupeFrom(items, seen, i + 1)
       ELSE LET rest == DedupeFrom(items, IF pid # "" THEN seen \cup {pid} ELSE seen, i + 1)
            IN [new_items |-> <<items[i]>> \o rest.new_items, seen |-> rest.seen]

\* Variant of the dedupe that forgets the ids of earlier pages.
Dedupe_NoSeen(items, seen) == DedupeFrom(items, {}, 1)

Dedupe(items, seen) == DedupeFrom(items, seen, 1)

\* Variant of the cap test that lets one more page through.
PageCapReached_Strict(visited, cap) == visited > cap

\* line 339: the safety cap on visited pages.
PageCapReached(visited, cap) == visited >= cap

\* Variant of the partial-save test that saves after every page.
PartialSaveDue_Always(visited, every) == TRUE

\* line 398: whether this visited page triggers a partial save.
PartialSaveDue(visited, every) == every > 0 /\ visited % every = 0

\* emart_json lines 400 and 409, price and non-price line 233: open(path, "w")
\* creates the file or cuts the one there to length zero.
OpenSnapshot(kind, category_name) ==
  [files EXCEPT ![OutputDir(kind)][category_name] = Truncated]

\* emart_json lines 401 and 410, price and non-price lines 234-236: json.dump
\* into the open file, and the close at the end of the with block.
WriteSnapshot(kind, category_name, data) ==
  [files EXCEPT ![OutputDir(kind)][category_name] = File(data)]

\* Whether the current category's snapshot file holds exactly these records.
SnapshotHolds(data) == files[OutputDir(ckind)][CategoryName] = File(data)

\* run_scraper lines 253-312 (emart_json), 152-169 (price, non-price).
RunScraperCall(kind, envs) ==
  /\ cpc = "idle"
  /\ ckind' = kind
  /\ \E e \in envs :
       IF kind = "all"
       THEN /\ cfg' = ParseEnvAll(e)
            /\ cpc' = "cat_check"
       ELSE IF EnvParsesPrice(e)
            THEN /\ cfg' = ParseEnvPrice(e)
                 /\ cpc' = "cat_check"
            ELSE /\ cfg' = cfg
                 /\ cpc' = "raised"
  /\ cat_idx' = 1
  /\ collected' = <<>>
  /\ seen_ids' = {}
  /\ consecutive_empty' = 0
  /\ page_num' = 0
  /\ visited_pages' = 0
  /\ html' = NoHtml
  /\ remain' = 0
  /\ fetches' = 0
  /\ attempts' = 0
  /\ resp_status' = NoAttempt
  /\ raw' = <<>>
  /\ yields' = <<>>
  /\ has_next' = "unset"
  /\ finalWrites' = 0
  /\ breakReason' = "none"
  /\ lastExit' = NoExit
  /\ endedOnCancel' = FALSE
  /\ UNCHANGED files

\* lines 314-326: the head of the category loop.
CategoryStart ==
  /\ cpc = "cat_check"
  /\ IF cat_idx > Len(Categories)
     THEN /\ cpc' = "returned"
          /\ UNCHANGED <<collected, seen_ids, consecutive_empty, page_num, visited_pages,
                         fetches, attempts, resp_status, raw, yields, has_next, finalWrites, breakReason, endedOnCancel>>
     ELSE IF _should_stop(cancel_event)
     THEN /\ cpc' = "returned"
          /\ endedOnCancel' = TRUE
          /\ UNCHANGED <<collected, seen_ids, consecutive_empty, page_num, visited_pages,
                         fetches, attempts, resp_status, raw, yields, has_next, finalWrites, breakReason>>
     ELSE /\ cpc' = "loop_top"
          /\ collected' = <<>>
          /\ seen_ids' = {}
          /\ consecutive_empty' = 0
          /\ page_num' = cfg.start_page
          /\ visited_pages' = 0
          /\ fetches' = 0
          /\ attempts' = 0
          /\ resp_status' = NoAttempt
          /\ raw' = <<>>
          /\ yields' = <<>>
          /\ has_next' = "unset"
          /\ finalWrites' = 0
          /\ breakReason' = "none"
          /\ endedOnCancel' = endedOnCancel
  /\ UNCHANGED <<ckind, cfg, cat_idx, html, remain, lastExit, files>>
  /\ UNCHANGED <<cancel_event, sig, syncVars, storeVars, syncHist, coordVars>>

\* emart_json lines 328-341; price lines 180-183.
LoopTop ==
  /\ cpc = "loop_top"
  /\ IF ckind = "all"
     THEN IF _should_stop(cancel_event)
          THEN cpc' = "save" /\ breakReason' = "cancelled"
          ELSE IF cfg.end_page # 0 /\ page_num > cfg.end_page
          THEN cpc' = "save" /\ breakReason' = "end-page-reached"
          ELSE IF PageCapReached(visited_pages, cfg.page_cap)
          THEN cpc' = "save" /\ breakReason' = "page-cap-reached"
          ELSE cpc' = "pre_fetch" /\ breakReason' = breakReason
     ELSE IF page_num > cfg.end_page
          THEN cpc' = "save" /\ breakReason' = "end-page-reached"
          ELSE IF _should_stop(cancel_event)
          THEN cpc' = "save" /\ breakReason' = "cancelled"
          ELSE cpc' = "pre_fetch" /\ breakReason' = breakReason
  /\ UNCHANGED <<ckind, cfg, cat_idx, collected, seen_ids, consecutive_empty, page_num,
                 visited_pages, html, remain, fetches, attempts, resp_status, raw, yields, has_next, finalWrites, lastExit,
                 files>>
  /\ UNCHANGED <<endedOnCancel, cancel_event, sig, syncVars, storeVars, syncHist, coordVars>>

\* Variant of the pre-fetch step that does not look at the token.
PreFetchCheck_NoCheck ==
  /\ cpc = "pre_fetch"
  /\ cpc' = "fetch"
  /\ UNCHANGED <<ckind, cfg, cat_idx, collected, seen_ids, consecutive_empty, page_num,
                 visited_pages, html, remain, fetches, attempts, resp_status, raw, yields, has_next, finalWrites,
                 breakReason, lastExit, files>>
  /\ UNCHANGED <<endedOnCancel, cancel_event, sig, syncVars, storeVars, syncHist, coordVars>>

\* emart_json lines 346-348; price lines 191-193.
PreFetchCheck ==
  /\ cpc = "pre_fetch"
  /\ IF _should_stop(cancel_event)
     THEN cpc' = "save" /\ breakReason' = "cancelled"
     ELSE cpc' = "fetch" /\ breakReason' = breakReason
  /\ UNCHANGED <<ckind, cfg, cat_idx, collected, seen_ids, consecutive_empty, page_num,
                 visited_pages, html, remain, fetches, attempts, resp_status, raw, yields, has_next, finalWrites, lastExit,
                 files>>
  /\ UNCHANGED <<endedOnCancel, cancel_event, sig, syncVars, storeVars, syncHist, coordVars>>

\* Variant of the except clauses that lets the error leave run_scraper.
CategoryAbort_Raises(reason) ==
  /\ cpc' = "raised"
  /\ cat_idx' = cat_idx
  /\ lastExit' = [cat |-> cat_idx, saved |-> SnapshotHolds(collected), reason |-> reason,
                  writes |-> finalWrites]

\* The except clauses of the category's try (emart_json 420-423): the error is
\* printed and the for loop goes on with the next category.
CategoryAbort(reason) ==
  /\ cpc' = "cat_check"
  /\ cat_idx' = cat_idx + 1
  /\ lastExit' = [cat |-> cat_idx, saved |-> SnapshotHolds(collected), reason |-> reason,
                  writes |-> finalWrites]

\* _build_session line 94: Retry(total=5, ...), the retries of one session.get.
RetryTotal == 5

\* The outcomes of one attempt: a page, a status outside the forcelist, a
\* status of the forcelist, no response.
StatusChoices == {200, 404, 503, ConnFailure}

\* Variant of the retry rule that retries every failure.
ShouldRetry_AnyFailure(status) == status # 200

\* _build_session lines 93-103: the attempt is retried on a connection or read
\* failure (connect=5, read=5) and on a status of status_forcelist.
ShouldRetry(status) == status = ConnFailure \/ status \in {429, 500, 502, 503, 504}

\* session.get of the full crawler, inside the adapter: an attempt fails in a
\* retryable way and the budget is not used up; the adapter backs off and sends
\* the request again. (The price crawlers call requests.get: no retry.)
FetchRetry ==
  /\ cpc = "fetch"
  /\ ckind = "all"
  /\ attempts < RetryTotal
  /\ \E status \in StatusChoices :
        /\ ShouldRetry(status)
        /\ resp_status' = status
  /\ attempts' = attempts + 1
  /\ UNCHANGED <<cpc, ckind, cfg, cat_idx, collected, seen_ids, consecutive_empty, page_num,
                 visited_pages, html, has_next, remain, fetches, raw, yields, finalWrites,
                 breakReason, lastExit, files>>
  /\ UNCHANGED <<endedOnCancel, cancel_event, sig, syncVars, storeVars, syncHist, coordVars>>

\* emart_json lines 350-354: the page arrives.
FetchOk ==
  /\ cpc = "fetch"
  /\ html' \in PageChoices
  /\ cpc' = "post_fetch"
  /\ fetches' = fetches + 1
  /\ attempts' = 0
  /\ resp_status' = 200
  /\ UNCHANGED <<ckind, cfg, cat_idx, collected, seen_ids, consecutive_empty, page_num,
                 visited_pages, remain, raw, yields, has_next, finalWrites, breakReason, lastExit,
                 files>>
  /\ UNCHANGED <<endedOnCancel, cancel_event, sig, syncVars, storeVars, syncHist, coordVars>>

\* emart_json lines 350-353: session.get raises (no response and no retry
\* left) or returns a failure status (raise_on_status=False), which
\* raise_for_status turns into an HTTPError. price lines 195-196: requests.get
\* raises or raise_for_status does, on the first failure.
FetchError ==
  /\ cpc = "fetch"
  /\ \E status \in StatusChoices :
        /\ status # 200
        /\ (ckind = "all" /\ ShouldRetry(status)) => attempts >= RetryTotal
        /\ resp_status' = status
  /\ fetches' = fetches + 1
  /\ attempts' = 0
  /\ CategoryAbort("fetch-error")
  /\ UNCHANGED <<ckind, cfg, collected, seen_ids, consecutive_empty, page_num,
                 visited_pages, html, remain, raw, yields, has_next, finalWrites, breakReason,
                 files>>
  /\ UNCHANGED <<endedOnCancel, cancel_event, sig, syncVars, storeVars, syncHist, coordVars>>

\* Variant of the post-fetch step that does not look at the token.
PostFetchCheck_NoCheck ==
  /\ cpc = "post_fetch"
  /\ cpc' = "extract"
  /\ UNCHANGED <<ckind, cfg, cat_idx, collected, seen_ids, consecutive_empty, page_num,
                 visited_pages, html, remain, fetches, attempts, resp_status, raw, yields, has_next, finalWrites, breakReason,
                 lastExit, files>>
  /\ UNCHANGED <<endedOnCancel, cancel_event, sig, syncVars, storeVars, syncHist, coordVars>>

\* emart_json lines 356-358; price lines 200-202.
PostFetchCheck ==
  /\ cpc = "post_fetch"
  /\ IF _should_stop(cancel_event)
     THEN cpc' = "save" /\ breakReason' = "cancelled"
     ELSE cpc' = "extract" /\ breakReason' = breakReason
  /\ UNCHANGED <<ckind, cfg, cat_idx, collected, seen_ids, consecutive_empty, page_num,
                 visited_pages, html, remain, fetches, attempts, resp_status, raw, yields, has_next, finalWrites, lastExit,
                 files>>
  /\ UNCHANGED <<endedOnCancel, cancel_event, sig, syncVars, storeVars, syncHist, coordVars>>

\* emart_json lines 380-381: the streak of empty pages has reached the threshold.
EmptyStreakStops_AtZero(consecutive, threshold) == consecutive >= threshold

EmptyStreakStops(consecutive, threshold) == threshold > 0 /\ consecutive >= threshold

\* emart_json line 391: only a definite False ends the category.
DomSaysStop_OnNone(signal) == signal # "True"

DomSaysStop(signal) == signal = "False"

\* emart_json lines 360-405: extract, dedupe, extend, the two stop rules, then
\* either the open of the partial save or the advance to the sleep.
ExtractPageAll ==
  /\ cpc = "extract"
  /\ ckind = "all"
  /\ \E dom \in DomChoices :
     LET items == scrape_emart_category_page(ckind, CategoryName, html)
         d == Dedupe(items, seen_ids)
         new_items == d.new_items
         buf == collected \o new_items
         empties == IF Len(new_items) = 0 THEN consecutive_empty + 1 ELSE 0
     IN /\ collected' = buf
        /\ seen_ids' = d.seen
        /\ raw' = raw \o items
        /\ yields' = Append(yields, Len(new_items) = 0)
        /\ consecutive_empty' = empties
        /\ IF Len(new_items) = 0 /\ EmptyStreakStops(empties, cfg.empty_page_stop)
           THEN /\ cpc' = "save"
                /\ breakReason' = "empty-pages"
                /\ has_next' = "unset"
                /\ UNCHANGED <<visited_pages, page_num, remain, files>>
           ELSE IF DomSaysStop(dom)
           THEN /\ cpc' = "save"
                /\ breakReason' = "no-next-page"
                /\ has_next' = dom
                /\ UNCHANGED <<visited_pages, page_num, remain, files>>
           ELSE /\ has_next' = dom
                /\ visited_pages' = visited_pages + 1
                /\ breakReason' = breakReason
                /\ IF PartialSaveDue(visited_pages + 1, cfg.partial_save_every)
                   THEN /\ files' = OpenSnapshot(ckind, CategoryName)
                        /\ cpc' = "partial_dump"
                        /\ UNCHANGED <<page_num, remain>>
                   ELSE /\ files' = files
                        /\ page_num' = page_num + 1
                        /\ remain' = cfg.page_delay
                        /\ cpc' = "sleep"
  /\ html' = NoHtml
  /\ UNCHANGED <<ckind, cfg, cat_idx, fetches, attempts, resp_status, finalWrites, lastExit>>
  /\ UNCHANGED <<endedOnCancel, cancel_event, sig, syncVars, storeVars, syncHist, coordVars>>

\* price lines 204-226, non-price lines 206-231: extract, extend, sleep.
ExtractPagePrice ==
  /\ cpc = "extract"
  /\ ckind # "all"
  /\ LET items == scrape_emart_category_page(ckind, CategoryName, html)
     IN /\ collected' = collected \o items
        /\ raw' = raw \o items
  /\ page_num' = page_num + 1
  /\ remain' = cfg.page_delay
  /\ cpc' = "sleep"
  /\ html' = NoHtml
  /\ UNCHANGED <<ckind, cfg, cat_idx, seen_ids, consecutive_empty, visited_pages,
                 yields, has_next, fetches, attempts, resp_status, finalWrites, breakReason, lastExit, files>>
  /\ UNCHANGED <<endedOnCancel, cancel_event, sig, syncVars, storeVars, syncHist, coordVars>>

\* scrape_emart_category_page raises: caught by the category's except Exception.
ExtractError ==
  /\ cpc = "extract"
  /\ CategoryAbort("extract-error")
  /\ UNCHANGED <<ckind, cfg, collected, seen_ids, consecutive_empty, page_num,
                 visited_pages, html, remain, fetches, attempts, resp_status, raw, yields, has_next, finalWrites, breakReason,
                 files>>
  /\ UNCHANGED <<endedOnCancel, cancel_event, sig, syncVars, storeVars, syncHist, coordVars>>

\* Variant of the sleep whose loop never takes the slept time off.
SleepTick_NoCountdown ==
  /\ cpc = "sleep"
  /\ IF remain <= 0 \/ _should_stop(cancel_event)
     THEN cpc' = "loop_top"
     ELSE cpc' = "sleep"
  /\ remain' = remain
  /\ has_next' = "unset"
  /\ UNCHANGED <<ckind, cfg, cat_idx, collected, seen_ids, consecutive_empty, page_num,
                 visited_pages, html, fetches, attempts, resp_status, raw, yields, finalWrites, breakReason, lastExit,
                 files>>
  /\ UNCHANGED <<endedOnCancel, cancel_event, sig, syncVars, storeVars, syncHist, coordVars>>

\* Variant of the sleep that looks at the token only when it is over.
SleepTick_Unsplit ==
  /\ cpc = "sleep"
  /\ IF remain <= 0
     THEN cpc' = "loop_top" /\ remain' = remain
     ELSE cpc' = "sleep" /\ remain' = remain - 1
  /\ has_next' = "unset"
  /\ UNCHANGED <<ckind, cfg, cat_idx, collected, seen_ids, consecutive_empty, page_num,
                 visited_pages, html, fetches, attempts, resp_status, raw, yields, finalWrites, breakReason, lastExit,
                 files>>
  /\ UNCHANGED <<endedOnCancel, cancel_event, sig, syncVars, storeVars, syncHist, coordVars>>

\* _sleep_with_cancel lines 76-87: one turn of its loop.
SleepTick ==
  /\ cpc = "sleep"
  /\ IF remain <= 0
     THEN cpc' = "loop_top" /\ remain' = remain
     ELSE IF _should_stop(cancel_event)
     THEN cpc' = "loop_top" /\ remain' = remain
     ELSE cpc' = "sleep" /\ remain' = remain - 1
  /\ has_next' = "unset"
  /\ UNCHANGED <<ckind, cfg, cat_idx, collected, seen_ids, consecutive_empty, page_num,
                 visited_pages, html, fetches, attempts, resp_status, raw, yields, finalWrites, breakReason, lastExit,
                 files>>
  /\ UNCHANGED <<endedOnCancel, cancel_event, sig, syncVars, storeVars, syncHist, coordVars>>

\* emart_json lines 401-405: the partial save's json.dump, then the advance to
\* the sleep.
PartialDump ==
  /\ cpc = "partial_dump"
  /\ files' = WriteSnapshot(ckind, CategoryName, collected)
  /\ page_num' = page_num + 1
  /\ remain' = cfg.page_delay
  /\ cpc' = "sleep"
  /\ UNCHANGED <<ckind, cfg, cat_idx, collected, seen_ids, consecutive_empty,
                 visited_pages, html, fetches, attempts, resp_status, raw, yields, has_next,
                 finalWrites, breakReason, lastExit>>
  /\ UNCHANGED <<endedOnCancel, cancel_event, sig, syncVars, storeVars, syncHist, coordVars>>

\* emart_json lines 408-409, price and non-price line 233: the final save of the
\* category opens its file for writing.
FinalSave ==
  /\ cpc = "save"
  /\ files' = OpenSnapshot(ckind, CategoryName)
  /\ cpc' = "dump"
  /\ UNCHANGED <<ckind, cfg, cat_idx, collected, seen_ids, consecutive_empty, page_num,
                 visited_pages, html, remain, fetches, attempts, resp_status, raw, yields, has_next,
                 finalWrites, breakReason, lastExit>>
  /\ UNCHANGED <<endedOnCancel, cancel_event, sig, syncVars, storeVars, syncHist, coordVars>>

\* emart_json line 410, price and non-price lines 234-236: the final save's
\* json.dump.
FinalDump ==
  /\ cpc = "dump"
  /\ files' = WriteSnapshot(ckind, CategoryName, collected)
  /\ finalWrites' = finalWrites + 1
  /\ cpc' = "exit_check"
  /\ UNCHANGED <<ckind, cfg, cat_idx, collected, seen_ids, consecutive_empty, page_num,
                 visited_pages, html, remain, fetches, attempts, resp_status, raw, yields, has_next, breakReason, lastExit>>
  /\ UNCHANGED <<endedOnCancel, cancel_event, sig, syncVars, storeVars, syncHist, coordVars>>

\* emart_json lines 412-418: return if the token is set, else the next category.
ExitCheck ==
  /\ cpc = "exit_check"
  /\ lastExit' = [cat |-> cat_idx, saved |-> SnapshotHolds(collected),
                  reason |-> breakReason, writes |-> finalWrites]
  /\ IF _should_stop(cancel_event)
     THEN cpc' = "returned" /\ cat_idx' = cat_idx /\ endedOnCancel' = TRUE
     ELSE cpc' = "cat_check" /\ cat_idx' = cat_idx + 1 /\ endedOnCancel' = endedOnCancel
  /\ UNCHANGED <<ckind, cfg, collected, seen_ids, consecutive_empty, page_num,
                 visited_pages, html, remain, fetches, attempts, resp_status, raw, yields, has_next, finalWrites, breakReason,
                 files>>
  /\ UNCHANGED <<cancel_event, sig, syncVars, storeVars, syncHist, coordVars>>

\* ------------------------------------------------------------ cancel token
\* main.tasks_stop: CANCEL_EVENT.set(). The handler is a coroutine of the event
\* loop: it runs when the loop is not inside another handler.
tasks_stop ==
  /\ loop = "free"
  /\ stop_req' = FALSE
  /\ cancel_event' = TRUE
  /\ sig' = IF cancel_event THEN sig
            ELSE [len |-> Len(raw),
                  page |-> IF cpc = "partial_dump" THEN page_num + 1 ELSE page_num,
                  late |-> cpc = "extract"]
  /\ UNCHANGED <<files, crawlVars, crawlHist, syncVars, storeVars, syncHist, schedVars, envVars, writers, loop,
                 manuals>>

\* main.tasks_start: CANCEL_EVENT.clear().
tasks_start ==
  /\ loop = "free"
  /\ cancel_event' = FALSE
  /\ sig' = NoSig
  /\ UNCHANGED <<files, crawlVars, crawlHist, syncVars, storeVars, syncHist, coordVars>>

\* ------------------------------------------------------------- Firestore
\* The product ids of the catalog (document keys).
Ids == {"A", "B"}

\* The keys a document may be stored under: db.collection(...).document(key).
DocKeys == Ids \cup {""}

NoPriceDoc == [exists |-> FALSE, out_of_stock |-> "", quantity |-> "", last_updated |-> "",
               price_history |-> <<>>]
NoProductDoc == [exists |-> FALSE, id |-> "", category |-> "", image_url |-> "",
                 last_updated |-> "",
                 product_address |-> "", product_name |-> "", is_emb |-> ""]

\* firebase_uploader lines 220-224.
PriceInfo(product) ==
  [original_price |-> product.original_price, selling_price |-> product.selling_price,
   last_updated |-> product.last_updated]

\* Variant of the comparison that finds every price changed.
PriceHasChanged_Always(price_history, price_info) == TRUE

\* Variant of the comparison that looks at every stored entry.
PriceHasChanged_AnyEntry(price_history, price_info) ==
  \A k \in 1..Len(price_history) :
    ~(price_history[k].original_price = price_info.original_price
      /\ price_history[k].selling_price = price_info.selling_price)

\* Variant of the comparison that also compares the observation time.
PriceHasChanged_WithTime(price_history, price_info) ==
  IF Len(price_history) > 0
  THEN price_history[Len(price_history)] # price_info
  ELSE TRUE

\* update_price_history lines 45-51: compare with the last history entry.
PriceHasChanged(price_history, price_info) ==
  IF Len(price_history) > 0
  THEN LET last_record == price_history[Len(price_history)]
       IN ~(last_record.original_price = price_info.original_price
            /\ last_record.selling_price = price_info.selling_price)
  ELSE TRUE

\* Variant of the write-back that keeps only the new entry.
AppendHistory_Replace(price_history, price_info) == <<price_info>>

\* update_price_history line 61: the history written back.
AppendHistory(price_history, price_info) == Append(price_history, price_info)

\* Variant of the price path that answers 'updated' for an unchanged price too.
update_price_history_AlwaysUpdated(doc, out_of_stock, quantity, last_updated, price_info, fails) ==
  IF fails THEN [status |-> "error", doc |-> doc]
  ELSE LET price_history == IF doc.exists THEN doc.price_history ELSE <<>>
           top == [exists |-> TRUE, out_of_stock |-> out_of_stock, quantity |-> quantity,
                   last_updated |-> last_updated, price_history |-> price_history]
       IN IF PriceHasChanged(price_history, price_info)
          THEN [status |-> "updated",
                doc |-> [top EXCEPT !.price_history = AppendHistory(price_history, price_info)]]
          ELSE [status |-> "updated", doc |-> top]

\* update_price_history lines 40-71 on the stored document doc; fails: the
\* document read or the set raises.
update_price_history(doc, out_of_stock, quantity, last_updated, price_info, fails) ==
  IF fails THEN [status |-> "error", doc |-> doc]
  ELSE LET price_history == IF doc.exists THEN doc.price_history ELSE <<>>
           top == [exists |-> TRUE, out_of_stock |-> out_of_stock, quantity |-> quantity,
                   last_updated |-> last_updated, price_history |-> price_history]
       IN IF PriceHasChanged(price_history, price_info)
          THEN [status |-> "updated",
                doc |-> [top EXCEPT !.price_history = AppendHistory(price_history, price_info)]]
          ELSE [status |-> "skipped", doc |-> top]

\* Variant of the product upsert that compares the name only.
upsert_product_NameOnly(doc, product, fails) ==
  IF fails THEN [status |-> "error", doc |-> doc]
  ELSE IF doc.exists
  THEN IF doc.product_name # product.product_name
       THEN [status |-> "updated",
             doc |-> [doc EXCEPT !.product_name = product.product_name,
                                 !.image_url = product.image_url,
                                 !.last_updated = product.last_updated,
                                 !.is_emb = "R"]]
       ELSE [status |-> "skipped",
             doc |-> [doc EXCEPT !.last_updated = product.last_updated]]
  ELSE [status |-> "new",
        doc |-> [exists |-> TRUE, id |-> product.id, category |-> product.category,
                 image_url |-> product.image_url, last_updated |-> product.last_updated,
                 product_address |-> product.product_address,
                 product_name |-> product.product_name, is_emb |-> "R"]]

\* Variant of the product upsert that writes a changed product over the
\* stored document.
upsert_product_Recreates(doc, product, fails) ==
  IF fails THEN [status |-> "error", doc |-> doc]
  ELSE IF doc.exists /\ doc.product_name = product.product_name
          /\ doc.image_url = product.image_url
  THEN [status |-> "skipped",
        doc |-> [doc EXCEPT !.last_updated = product.last_updated]]
  ELSE [status |-> IF doc.exists THEN "updated" ELSE "new",
        doc |-> [exists |-> TRUE, id |-> product.id, category |-> product.category,
                 image_url |-> product.image_url, last_updated |-> product.last_updated,
                 product_address |-> product.product_address,
                 product_name |-> product.product_name, is_emb |-> "R"]]

\* upload_json_to_firestore lines 245-292 on the stored document doc.
upsert_product(doc, product, fails) ==
  IF fails THEN [status |-> "error", doc |-> doc]
  ELSE IF doc.exists
  THEN IF doc.product_name # product.product_name \/ doc.image_url # product.image_url
       THEN [status |-> "updated",
             doc |-> [doc EXCEPT !.product_name = product.product_name,
                                 !.image_url = product.image_url,
                                 !.last_updated = product.last_updated,
                                 !.is_emb = "R"]]
       ELSE [status |-> "skipped",
             doc |-> [doc EXCEPT !.last_updated = product.last_updated]]
  ELSE [status |-> "new",
        doc |-> [exists |-> TRUE, id |-> product.id, category |-> product.category,
                 image_url |-> product.image_url, last_updated |-> product.last_updated,
                 product_address |-> product.product_address,
                 product_name |-> product.product_name, is_emb |-> "R"]]

\* --------------------------------------------------------------- uploader
\* Variant of the store kind that runs both paths for every directory.
beacon_AlwaysBoth(dir) == 1

\* upload_json_to_firestore lines 168-172.
beacon(dir) ==
  IF dir = "result_json" THEN 1 ELSE IF dir = "result_price_json" THEN 2 ELSE 3

ZeroCounters == [price_updated |-> 0, price_skipped |-> 0, product_new |-> 0,
                 product_updated |-> 0, product_skipped |-> 0]
NoResult == [status |-> "none", message |-> "", has_counters |-> FALSE,
             counters |-> ZeroCounters]
NoObs == [original_price |-> "", selling_price |-> "", status |-> "none"]

CategorySet == {Categories[i] : i \in 1..Len(Categories)}

\* The orders in which glob may list a set of files.
Orderings(S) ==
  {q \in [1..Cardinality(S) -> S] : \A i, j \in 1..Cardinality(S) : i # j => q[i] # q[j]}

json_file == json_files[1]

\* The call of upload_json_to_firestore(directory_path, stop_event).
UploadCall(dir) ==
  /\ upc = "idle"
  /\ upc' = "entry"
  /\ directory_path' = dir
  /\ json_files' = <<>>
  /\ products' = <<>>
  /\ ridx' = 1
  /\ counters' = ZeroCounters
  /\ result' = NoResult
  /\ errInFile' = FALSE
  /\ removed' = "none"
  /\ touched' = FALSE
  /\ uploads' = uploads + 1
  /\ notified' = 0
  /\ sent' = <<>>
  /\ UNCHANGED <<lastObs, faults, storeVars, files>>

\* lines 159-167: the entry check, then initialize_firebase succeeds.
UploadEntry ==
  /\ upc = "entry"
  /\ IF _should_stop(cancel_event)
     THEN /\ upc' = "returned"
          /\ result' = [status |-> "stopped", message |-> "before-start",
                          has_counters |-> FALSE, counters |-> ZeroCounters]
     ELSE /\ upc' = "glob"
          /\ result' = result
  /\ UNCHANGED <<directory_path, json_files, products, ridx, counters, storeVars, syncHist,
                 files>>
  /\ UNCHANGED <<cancel_event, sig, crawlVars, crawlHist, coordVars>>

\* lines 162-165: initialize_firebase raises.
UploadInitError ==
  /\ upc = "entry"
  /\ ~_should_stop(cancel_event)
  /\ faults < MaxFaults
  /\ faults' = faults + 1
  /\ upc' = "returned"
  /\ result' = [status |-> "error", message |-> "init",
                  has_counters |-> FALSE, counters |-> ZeroCounters]
  /\ UNCHANGED <<directory_path, json_files, products, ridx, counters, storeVars, errInFile,
                 removed, lastObs, uploads, notified, sent, touched, files>>
  /\ UNCHANGED <<cancel_event, sig, crawlVars, crawlHist, coordVars>>

\* lines 174-186: glob the directory.
UploadGlob ==
  /\ upc = "glob"
  /\ LET found == {c \in CategorySet : files[directory_path][c].exists}
     IN IF found = {}
        THEN /\ upc' = "returned"
             /\ result' = [status |-> "warning", message |-> "no-files",
                             has_counters |-> FALSE, counters |-> ZeroCounters]
             /\ json_files' = json_files
        ELSE /\ upc' = "file_loop"
             /\ json_files' \in Orderings(found)
             /\ result' = result
  /\ counters' = ZeroCounters
  /\ UNCHANGED <<directory_path, products, ridx, storeVars, syncHist, files>>
  /\ UNCHANGED <<cancel_event, sig, crawlVars, crawlHist, coordVars>>

\* lines 188-206: the head of the file loop; the file is opened and loaded.
FileLoop ==
  /\ upc = "file_loop"
  /\ IF json_files = <<>>
     THEN /\ upc' = "final_check"
          /\ UNCHANGED <<products, ridx, result, errInFile>>
     ELSE IF _should_stop(cancel_event)
     THEN /\ upc' = "returned"
          /\ result' = [status |-> "stopped", message |-> "file-loop",
                          has_counters |-> TRUE, counters |-> counters]
          /\ UNCHANGED <<products, ridx, errInFile>>
     ELSE IF files[directory_path][json_file].exists /\ files[directory_path][json_file].complete
     THEN /\ upc' = "record_loop"
          /\ products' = files[directory_path][json_file].data
          /\ ridx' = 1
          /\ errInFile' = FALSE
          /\ result' = result
     ELSE \* open raises, or json.load does on a text that is not a complete
          \* document: the outer except, lines 354-356
          /\ upc' = "returned"
          /\ result' = [status |-> "error", message |-> "exception",
                          has_counters |-> FALSE, counters |-> ZeroCounters]
          /\ UNCHANGED <<products, ridx, errInFile>>
  /\ UNCHANGED <<directory_path, json_files, counters, storeVars, removed, lastObs, uploads, notified, sent,
                 touched, faults, files>>
  /\ UNCHANGED <<cancel_event, sig, crawlVars, crawlHist, coordVars>>

\* lines 203-204: open or json.load raises (unreadable or malformed file); the
\* exception leaves the file loop and reaches the outer except, lines 354-356.
FileLoadError ==
  /\ upc = "file_loop"
  /\ json_files # <<>>
  /\ ~_should_stop(cancel_event)
  /\ faults < MaxFaults
  /\ faults' = faults + 1
  /\ upc' = "returned"
  /\ result' = [status |-> "error", message |-> "exception",
                  has_counters |-> FALSE, counters |-> ZeroCounters]
  /\ UNCHANGED <<directory_path, json_files, products, ridx, counters, storeVars, errInFile,
                 removed, lastObs, uploads, notified, sent, touched, files>>
  /\ UNCHANGED <<cancel_event, sig, crawlVars, crawlHist, coordVars>>

\* Variant of the mid-file stop that removes the file it leaves.
RecordStop_Removes ==
  /\ upc = "record_loop"
  /\ ridx <= Len(products)
  /\ _should_stop(cancel_event)
  /\ upc' = "returned"
  /\ result' = [status |-> "stopped", message |-> "in-file",
                  has_counters |-> TRUE, counters |-> counters]
  /\ files' = [files EXCEPT ![directory_path][json_file] = NoFile]
  /\ UNCHANGED <<directory_path, json_files, products, ridx, counters, storeVars, syncHist>>
  /\ UNCHANGED <<cancel_event, sig, crawlVars, crawlHist, coordVars>>

\* lines 210-213 and 294-305: the token is seen set before a record.
RecordStop ==
  /\ upc = "record_loop"
  /\ ridx <= Len(products)
  /\ _should_stop(cancel_event)
  /\ upc' = "returned"
  /\ result' = [status |-> "stopped", message |-> "in-file",
                  has_counters |-> TRUE, counters |-> counters]
  /\ UNCHANGED <<directory_path, json_files, products, ridx, counters, storeVars, syncHist,
                 files>>
  /\ UNCHANGED <<cancel_event, sig, crawlVars, crawlHist, coordVars>>

\* What the latest price sync of one id was given and what it returned.
NextObs(price_info, status) ==
  [original_price |-> price_info.original_price,
   selling_price |-> price_info.selling_price, status |-> status]

\* Variant of the id test that lets every record through.
HasId_Always(product_id) == TRUE

\* lines 215-217: `if not product_id: continue`.
HasId(product_id) == product_id # ""

\* Variant of the record loop that gives up the rest of the file on a failure.
RecordContinue_AbortsFile(failed) ==
  /\ ridx' = IF failed THEN Len(products) + 1 ELSE ridx + 1
  /\ UNCHANGED <<upc, json_files, products, result>>

\* lines 209-292: the for loop takes the next record; a failure of a store call
\* was caught at 69-71 or 291-292 and changes nothing here.
RecordContinue(failed) ==
  /\ ridx' = ridx + 1
  /\ UNCHANGED <<upc, json_files, products, result>>

\* lines 215-292: one record: the price path, then the product path.
RecordSync ==
  /\ upc = "record_loop"
  /\ ridx <= Len(products)
  /\ ~_should_stop(cancel_event)
  /\ LET product == products[ridx]
         product_id == product.id
     IN IF ~HasId(product_id)
        THEN /\ RecordContinue(FALSE)
             /\ UNCHANGED <<counters, storeVars, errInFile, lastObs, touched, faults>>
        ELSE \E price_fails, product_fails \in BOOLEAN :
             LET pr == IF beacon(directory_path) \in {1, 2}
                       THEN update_price_history(emart_price[product_id],
                                                 product.out_of_stock, product.quantity,
                                                 product.last_updated, PriceInfo(product),
                                                 price_fails)
                       ELSE [status |-> "none", doc |-> emart_price[product_id]]
                 dr == IF beacon(directory_path) \in {1, 3}
                       THEN upsert_product(emart_product[product_id], product, product_fails)
                       ELSE [status |-> "none", doc |-> emart_product[product_id]]
             IN /\ faults + (IF price_fails THEN 1 ELSE 0)
                       + (IF product_fails THEN 1 ELSE 0) <= MaxFaults
                /\ faults' = faults + (IF price_fails THEN 1 ELSE 0)
                                     + (IF product_fails THEN 1 ELSE 0)
                /\ (beacon(directory_path) = 3 => ~price_fails)
                /\ (beacon(directory_path) = 2 => ~product_fails)
                /\ emart_price' = [emart_price EXCEPT ![product_id] = pr.doc]
                /\ emart_product' = [emart_product EXCEPT ![product_id] = dr.doc]
                /\ counters' =
                     [price_updated |-> counters.price_updated
                                         + (IF pr.status = "updated" THEN 1 ELSE 0),
                      price_skipped |-> counters.price_skipped
                                         + (IF pr.status = "skipped" THEN 1 ELSE 0),
                      product_new |-> counters.product_new
                                       + (IF dr.status = "new" THEN 1 ELSE 0),
                      product_updated |-> counters.product_updated
                                           + (IF dr.status = "updated" THEN 1 ELSE 0),
                      product_skipped |-> counters.product_skipped
                                           + (IF dr.status = "skipped" THEN 1 ELSE 0)]
                /\ errInFile' = (errInFile \/ pr.status = "error" \/ dr.status = "error")
                /\ lastObs' =
                     IF pr.status = "none" THEN lastObs
                     ELSE [lastObs EXCEPT ![product_id] =
                             NextObs(PriceInfo(product), pr.status)]
                /\ touched' = TRUE
                /\ RecordContinue(price_fails \/ product_fails)
  /\ UNCHANGED <<directory_path, removed, uploads, notified, sent, files>>
  /\ UNCHANGED <<cancel_event, sig, crawlVars, crawlHist, coordVars>>

\* Variant of the end of a file that leaves the file in the directory.
FileRemove_Keeps ==
  /\ upc = "record_loop"
  /\ ridx > Len(products)
  /\ removed' = IF errInFile THEN "after-error" ELSE "clean"
  /\ products' = <<>>
  /\ ridx' = 1
  /\ errInFile' = FALSE
  /\ touched' = TRUE
  /\ json_files' = Tail(json_files)
  /\ upc' = "file_loop"
  /\ UNCHANGED <<directory_path, counters, result, storeVars, lastObs, uploads, notified, sent, faults, files>>
  /\ UNCHANGED <<cancel_event, sig, crawlVars, crawlHist, coordVars>>

\* lines 306-308: every record was iterated; os.remove(json_file).
FileRemove ==
  /\ upc = "record_loop"
  /\ ridx > Len(products)
  /\ files' = [files EXCEPT ![directory_path][json_file] = NoFile]
  /\ removed' = IF errInFile THEN "after-error" ELSE "clean"
  /\ products' = <<>>
  /\ ridx' = 1
  /\ errInFile' = FALSE
  /\ touched' = TRUE
  /\ json_files' = Tail(json_files)
  /\ upc' = "file_loop"
  /\ UNCHANGED <<directory_path, counters, result, storeVars, lastObs, uploads, notified, sent, faults>>
  /\ UNCHANGED <<cancel_event, sig, crawlVars, crawlHist, coordVars>>

\* lines 309-310: os.remove raises OSError; it is printed.
FileRemoveError ==
  /\ upc = "record_loop"
  /\ ridx > Len(products)
  /\ json_files' = Tail(json_files)
  /\ upc' = "file_loop"
  /\ faults < MaxFaults
  /\ faults' = faults + 1
  /\ products' = <<>>
  /\ ridx' = 1
  /\ errInFile' = FALSE
  /\ UNCHANGED <<directory_path, counters, result, storeVars, removed, lastObs, uploads, notified, sent,
                 touched, files>>
  /\ UNCHANGED <<cancel_event, sig, crawlVars, crawlHist, coordVars>>

\* .env values of EMB_SERVER: not set, or a URL, of which urlparse (line 126)
\* gives the scheme and the host.
NoUrl == [scheme |-> "", host |-> ""]
EmbHosts == {"localhost", "127.0.0.1", "emb.example"}
EmbChoices == {NoUrl} \cup [scheme : {"http", "https"}, host : EmbHosts]

\* What a request to the embedding server does: a response, an SSLError, any
\* other RequestException.
NotifyOutcomes == {"ok", "ssl-error", "request-error"}

\* Variant of the host test that lets every host through.
IsLoopback_AnyHost(host) == TRUE

\* line 127: parsed.hostname in ("localhost", "127.0.0.1").
IsLoopback(host) == host \in {"localhost", "127.0.0.1"}

Request(scheme, host, outcome) == [scheme |-> scheme, host |-> host, outcome |-> outcome]

\* _notify_embedding_server lines 78-149: the requests it sends. It returns
\* without any when EMB_SERVER is empty (90-93); an SSLError on an https URL of
\* a loopback host is followed by one request to the same URL over http
\* (125-143), whose failure is printed (144-145); every other failure of the
\* first request is printed (146-149).
_notify_embedding_server(emb, outcome, outcome2) ==
  IF emb = NoUrl THEN <<>>
  ELSE IF outcome = "ssl-error" /\ emb.scheme = "https" /\ IsLoopback(emb.host)
       THEN <<Request(emb.scheme, emb.host, outcome), Request("http", emb.host, outcome2)>>
       ELSE <<Request(emb.scheme, emb.host, outcome)>>

\* lines 312-352 call it once; what the state keeps of the call.
Notify ==
  \E emb \in EmbChoices, outcome \in NotifyOutcomes, outcome2 \in {"ok", "request-error"} :
     /\ sent' = _notify_embedding_server(emb, outcome, outcome2)
     /\ notified' = Len(sent')

\* Variant of the final step that notifies without looking at the token.
FinalCheck_NotifiesAlways ==
  /\ upc = "final_check"
  /\ upc' = "returned"
  /\ Notify
  /\ touched' = TRUE
  /\ result' = [status |-> IF _should_stop(cancel_event) THEN "stopped" ELSE "success",
                message |-> "all-files", has_counters |-> TRUE, counters |-> counters]
  /\ UNCHANGED <<directory_path, json_files, products, ridx, counters, storeVars, errInFile,
                 removed, lastObs, uploads, faults, files>>
  /\ UNCHANGED <<cancel_event, sig, crawlVars, crawlHist, coordVars>>

\* lines 312-352: the final check, the notification, the result.
FinalCheck ==
  /\ upc = "final_check"
  /\ upc' = "returned"
  /\ IF _should_stop(cancel_event)
     THEN /\ result' = [status |-> "stopped", message |-> "after-files", has_counters |-> TRUE,
                        counters |-> counters]
          /\ touched' = touched
          /\ UNCHANGED <<notified, sent>>
     ELSE /\ result' = [status |-> "success", message |-> "all-files", has_counters |-> TRUE,
                        counters |-> counters]
          /\ touched' = TRUE
          /\ Notify
  /\ UNCHANGED <<directory_path, json_files, products, ridx, counters, storeVars, errInFile,
                 removed, lastObs, uploads, faults, files>>
  /\ UNCHANGED <<cancel_event, sig, crawlVars, crawlHist, coordVars>>

\* ------------------------------------------------------ initial conditions
NoFiles == [d \in Dirs |-> [c \in CategorySet |-> NoFile]]

CrawlIdle ==
  /\ cpc = "idle"
  /\ ckind = "all"
  /\ cfg = NoCfg
  /\ cat_idx = 1
  /\ collected = <<>>
  /\ seen_ids = {}
  /\ consecutive_empty = 0
  /\ page_num = 0
  /\ visited_pages = 0
  /\ html = NoHtml
  /\ remain = 0
  /\ fetches = 0
  /\ attempts = 0
  /\ resp_status = NoAttempt
  /\ raw = <<>>
  /\ yields = <<>>
  /\ has_next = "unset"
  /\ finalWrites = 0
  /\ breakReason = "none"
  /\ lastExit = NoExit
  /\ endedOnCancel = FALSE

SyncIdle ==
  /\ upc = "idle"
  /\ directory_path = "result_json"
  /\ json_files = <<>>
  /\ products = <<>>
  /\ ridx = 1
  /\ counters = ZeroCounters
  /\ result = NoResult
  /\ errInFile = FALSE
  /\ removed = "none"
  /\ lastObs = [i \in DocKeys |-> NoObs]
  /\ uploads = 0
  /\ notified = 0
  /\ sent = <<>>
  /\ faults = 0
  /\ touched = FALSE

\* The uploads that write the price collection: upload_all_products_to_firebase
\* and upload_id_price_to_firebase. job_all and job_price are separate jobs of
\* one BackgroundScheduler (main.py 170-194: max_instances=1 is per job id), so
\* both may run at once in its thread pool, and a manual run_firebase_* request
\* runs in the event loop's thread.
Writers == {"all", "price"}

\* No second upload is running.
NoWriters == [w \in Writers |-> [pc |-> "idle", todo |-> <<>>, doc |-> NoPriceDoc,
                                 appended |-> <<>>]]

StoreEmpty ==
  /\ emart_price = [i \in DocKeys |-> NoPriceDoc]
  /\ emart_product = [i \in DocKeys |-> NoProductDoc]

CoordIdle ==
  /\ jpc = "idle"
  /\ job = "none"
  /\ jobs = 0
  /\ skipped = 0
  /\ loop = "free"
  /\ stop_req = FALSE
  /\ manuals = 0
  /\ dotenv = DotenvAtStart
  /\ env_resp = NoResponse
  /\ writers = NoWriters

\* ------------------------------------------------- the crawlers on their own
\* main.py line 38: the token starts clear; no snapshot exists yet.
CrawlInit ==
  /\ cancel_event = FALSE
  /\ sig = NoSig
  /\ files = NoFiles
  /\ CrawlIdle
  /\ SyncIdle
  /\ StoreEmpty
  /\ CoordIdle

\* One of the three crawlers is started (run_all_products, run_id_price,
\* run_other_info of main.py, lines 382-408).
CrawlCall ==
  /\ \E kind \in Kinds : RunScraperCall(kind, EnvChoices)
  /\ UNCHANGED <<cancel_event, sig, syncVars, storeVars, syncHist, coordVars>>

CrawlNext ==
  \/ CrawlCall
  \/ CategoryStart
  \/ LoopTop
  \/ PreFetchCheck
  \/ FetchRetry
  \/ FetchOk
  \/ FetchError
  \/ PostFetchCheck
  \/ ExtractPageAll
  \/ ExtractPagePrice
  \/ ExtractError
  \/ SleepTick
  \/ PartialDump
  \/ FinalSave
  \/ FinalDump
  \/ ExitCheck
  \/ tasks_stop
  \/ tasks_start

CrawlSpec == CrawlInit /\ [][CrawlNext]_vars

\* ------------------------------------------- the full crawler, scheduled
\* The full crawler is started (run_all_products, main.py 382-389) with the
\* first page 1, no last page, and any of the other settings.
FullCrawlEnvs ==
  {e \in EnvChoices : /\ e.EMART_START_PAGE = <<1>>
                      /\ e.EMART_END_PAGE = <<>>
                      /\ e.EMART_EMPTY_PAGE_STOP \in {0, 2}
                      /\ e.EMART_PARTIAL_SAVE_EVERY \in {0, 1}}

FullCrawlCall ==
  /\ RunScraperCall("all", FullCrawlEnvs)
  /\ UNCHANGED <<cancel_event, sig, syncVars, storeVars, syncHist, coordVars>>

\* The steps of the thread that runs the crawler, from the head of the category
\* loop on: once run_scraper is called the thread keeps running; requests to
\* the endpoints come or do not.
CrawlerStep ==
  \/ CategoryStart
  \/ LoopTop
  \/ PreFetchCheck
  \/ FetchRetry
  \/ FetchOk
  \/ FetchError
  \/ PostFetchCheck
  \/ ExtractPageAll
  \/ ExtractError
  \/ SleepTick
  \/ PartialDump
  \/ FinalSave
  \/ FinalDump
  \/ ExitCheck

FullCrawlNext ==
  \/ FullCrawlCall
  \/ CategoryStart
  \/ LoopTop
  \/ PreFetchCheck
  \/ FetchRetry
  \/ FetchOk
  \/ FetchError
  \/ PostFetchCheck
  \/ ExtractPageAll
  \/ ExtractError
  \/ SleepTick
  \/ PartialDump
  \/ FinalSave
  \/ FinalDump
  \/ ExitCheck
  \/ tasks_stop
  \/ tasks_start

CrawlFairSpec == CrawlInit /\ [][FullCrawlNext]_vars /\ WF_vars(CrawlerStep)

\* ------------------------------------------------- the uploader on its own
ItemA0 == Item("A", "100", "90", "apple", "a.jpg", FALSE, "t0")
ItemA3 == Item("A", "100", "90", "apple", "a3.jpg", FALSE, "t3")

\* What a finished crawl of one category leaves in its snapshot file.
SnapshotOf(kind, category_name, items) ==
  LET recs == scrape_emart_category_page(kind, category_name, items)
  IN IF kind = "all" THEN Dedupe(recs, {}).new_items ELSE recs

\* The snapshot files an upload may find: what a finished crawl left behind.
FileChoices(kind, category_name) ==
  CASE kind = "all" /\ category_name = "Fruits" ->
         {File(SnapshotOf(kind, category_name, <<ItemA1, ItemE>>)),
          File(SnapshotOf(kind, category_name, <<ItemA2, ItemB, ItemB>>))}
    [] kind = "all" /\ category_name = "Vegetables" ->
         {File(SnapshotOf(kind, category_name, <<ItemA3>>))}
    [] kind = "price" /\ category_name = "Fruits" ->
         {File(SnapshotOf(kind, category_name, <<ItemA2, ItemB, ItemB>>)),
          File(SnapshotOf(kind, category_name, <<ItemA1, ItemA2, ItemB>>))}
    [] kind = "non_price" /\ category_name = "Fruits" ->
         {File(SnapshotOf(kind, category_name, <<ItemA3>>))}
    [] OTHER -> {NoFile}

\* The store after an earlier sync of ItemA0 from result_json, the embedding
\* server having embedded the product since (is_emb = "Y").
StoreSeeded ==
  LET rec == ScrapeItem("all", "Fruits", ItemA0)
  IN /\ emart_price =
          [i \in DocKeys |-> IF i = "A"
                         THEN update_price_history(NoPriceDoc, rec.out_of_stock, rec.quantity,
                                                   rec.last_updated, PriceInfo(rec), FALSE).doc
                         ELSE NoPriceDoc]
     /\ emart_product =
          [i \in DocKeys |-> IF i = "A"
                         THEN [upsert_product(NoProductDoc, rec, FALSE).doc
                                 EXCEPT !.is_emb = "Y"]
                         ELSE NoProductDoc]

SyncInit ==
  /\ cancel_event = FALSE
  /\ sig = NoSig
  /\ files \in [Dirs -> [CategorySet -> {NoFile} \cup
                           UNION {FileChoices(k, c) : k \in Kinds, c \in CategorySet}]]
  /\ \A k \in Kinds : \A c \in CategorySet : files[OutputDir(k)][c] \in FileChoices(k, c)
  /\ CrawlIdle
  /\ SyncIdle
  /\ StoreEmpty \/ StoreSeeded
  /\ CoordIdle

\* An upload is requested (run_firebase_all, run_firebase_price,
\* run_firebase_other of main.py, lines 422-446).
SyncCall ==
  /\ uploads < MaxUploads
  /\ \E dir \in Dirs : UploadCall(dir)
  /\ UNCHANGED <<cancel_event, sig, crawlVars, crawlHist, coordVars>>

\* The caller takes the returned result.
SyncReturn ==
  /\ upc = "returned"
  /\ upc' = "idle"
  /\ json_files' = <<>>
  /\ products' = <<>>
  /\ ridx' = 1
  /\ counters' = ZeroCounters
  /\ errInFile' = FALSE
  /\ UNCHANGED <<directory_path, result, storeVars, removed, lastObs, uploads, notified, sent, touched,
                 faults, files>>
  /\ UNCHANGED <<cancel_event, sig, crawlVars, crawlHist, coordVars>>

SyncNext ==
  \/ SyncCall
  \/ SyncReturn
  \/ UploadEntry
  \/ UploadInitError
  \/ UploadGlob
  \/ FileLoop
  \/ FileLoadError
  \/ RecordStop
  \/ RecordSync
  \/ FileRemove
  \/ FileRemoveError
  \/ FinalCheck
  \/ tasks_stop
  \/ tasks_start

SyncSpec == SyncInit /\ [][SyncNext]_vars

\* ------------------------------------------------------------- scheduler
\* The .env contents under which the scheduled jobs run.
SchedEnvs ==
  {e \in EnvChoices : /\ e.EMART_START_PAGE = <<1>>
                      /\ e.EMART_PAGE_CAP = 1
                      /\ e.EMART_EMPTY_PAGE_STOP = 2
                      /\ e.EMART_PARTIAL_SAVE_EVERY = 1}

SchedJobs == {"all", "price", "old"}

\* run_scraper has returned or raised: its frame is gone.
CrawlDiscard ==
  /\ cpc' = "idle"
  /\ ckind' = "all"
  /\ cfg' = NoCfg
  /\ cat_idx' = 1
  /\ collected' = <<>>
  /\ seen_ids' = {}
  /\ consecutive_empty' = 0
  /\ page_num' = 0
  /\ visited_pages' = 0
  /\ html' = NoHtml
  /\ remain' = 0
  /\ fetches' = 0
  /\ attempts' = 0
  /\ resp_status' = NoAttempt
  /\ raw' = <<>>
  /\ yields' = <<>>
  /\ has_next' = "unset"
  /\ finalWrites' = 0
  /\ breakReason' = "none"
  /\ lastExit' = NoExit
  /\ UNCHANGED endedOnCancel

\* Variant of the firing in which a job that finds the token set clears it and
\* runs.
SchedulerStart_ClearsToken ==
  /\ jpc = "idle"
  /\ cpc = "idle"
  /\ loop = "free"
  /\ jobs + manuals < MaxJobs
  /\ jobs' = jobs + 1
  /\ skipped' = skipped
  /\ cancel_event' = FALSE
  /\ sig' = NoSig
  /\ \E j \in SchedJobs :
       /\ job' = j
       /\ IF j = "old"
          THEN /\ jpc' = "scan"
               /\ UNCHANGED <<files, crawlVars, crawlHist>>
          ELSE /\ jpc' = "crawl"
               /\ RunScraperCall(j, SchedEnvs)
  /\ UNCHANGED <<syncVars, storeVars, syncHist, loopVars, envVars, writers>>

\* scheduler_all lines 103-108, scheduler_price lines 121-126, scheduler_old
\* lines 139-144: a job fires; it returns at once when the token is set, else
\* it starts its body: the crawler, or scan_old_to_product for the old job. The
\* firings enumerated are those that find no other run in progress; a request
\* may arrive while the job runs (ManualUploadStart).
SchedulerStart ==
  /\ jpc = "idle"
  /\ cpc = "idle"
  /\ loop = "free"
  /\ jobs + manuals < MaxJobs
  /\ jobs' = jobs + 1
  /\ \E j \in SchedJobs :
       IF cancel_event
       THEN /\ skipped' = skipped + 1
            /\ UNCHANGED <<jpc, job, files, crawlVars, crawlHist>>
       ELSE /\ skipped' = skipped
            /\ job' = j
            /\ IF j = "old"
               THEN /\ jpc' = "scan"
                    /\ UNCHANGED <<files, crawlVars, crawlHist>>
               ELSE /\ jpc' = "crawl"
                    /\ RunScraperCall(j, SchedEnvs)
  /\ UNCHANGED <<cancel_event, sig, syncVars, storeVars, syncHist, loopVars, envVars, writers>>

\* scheduler_old lines 144-147: scan_old_to_product returns or raises, and the
\* job is over. The function is given the token and never the means to clear
\* it; what it does to the store is not part of this model.
SchedulerOldDone ==
  /\ jpc = "scan"
  /\ jpc' = "idle"
  /\ job' = "none"
  /\ UNCHANGED <<cancel_event, sig, files, crawlVars, crawlHist, syncVars, storeVars,
                 syncHist, jobs, skipped, loopVars, envVars, writers>>

\* scheduler_all lines 108-113 and 115-116, scheduler_price lines 126-131 and
\* 133-134: the crawler is back; the token is read again, then the upload starts.
\* The state holds one activation of the uploader: of the interleavings with a
\* manual upload, those enumerated have it answered before the crawler is back.
SchedulerAfterCrawl ==
  /\ jpc = "crawl"
  /\ cpc \in {"returned", "raised"}
  /\ loop = "free"
  /\ CrawlDiscard
  /\ IF cpc = "raised" \/ cancel_event
     THEN /\ jpc' = "idle"
          /\ job' = "none"
          /\ UNCHANGED <<syncVars, storeVars, syncHist, files>>
     ELSE /\ jpc' = "upload"
          /\ job' = job
          /\ UploadCall(OutputDir(job))
  /\ UNCHANGED <<cancel_event, sig, jobs, skipped, loopVars, envVars, writers>>

\* scheduler_all lines 113-114, scheduler_price lines 131-132: the upload is back.
SchedulerDone ==
  /\ jpc = "upload"
  /\ upc = "returned"
  /\ jpc' = "idle"
  /\ job' = "none"
  /\ upc' = "idle"
  /\ json_files' = <<>>
  /\ products' = <<>>
  /\ ridx' = 1
  /\ counters' = ZeroCounters
  /\ errInFile' = FALSE
  /\ UNCHANGED <<directory_path, result, storeVars, removed, lastObs, uploads, notified, sent, touched,
                 faults, files>>
  /\ UNCHANGED <<cancel_event, sig, crawlVars, crawlHist, jobs, skipped, loopVars, envVars, writers>>

\* ------------------------------------------------------ manual endpoints
\* run_all_products, run_id_price, run_other_info (main.py 381-408): the
\* coroutine clears the token and calls the crawler inside the event loop.
ManualCrawlStart ==
  /\ loop = "free"
  /\ cpc = "idle"
  /\ jpc = "idle"
  /\ jobs + manuals < MaxJobs
  /\ manuals' = manuals + 1
  /\ loop' = "run_crawl"
  /\ cancel_event' = FALSE
  /\ sig' = NoSig
  /\ \E kind \in Kinds : RunScraperCall(kind, SchedEnvs)
  /\ UNCHANGED <<syncVars, storeVars, syncHist, schedVars, envVars, writers, stop_req>>

\* main.py 383-389 (and 393-408): the status the endpoint answers with once the
\* crawler is back at position pc; the crawler returns None on every path.
run_crawl_status(pc) == IF pc = "raised" THEN "error" ELSE "success"

\* The crawler returns (or raises into the endpoint's except): the response is
\* sent and the event loop is free again.
ManualCrawlEnd ==
  /\ loop = "run_crawl"
  /\ cpc \in {"returned", "raised"}
  /\ CrawlDiscard
  /\ loop' = "free"
  /\ UNCHANGED <<cancel_event, sig, files, syncVars, storeVars, syncHist, schedVars, envVars, writers,
                 stop_req, manuals>>

\* run_firebase_all, run_firebase_price, run_firebase_other (main.py 422-446).
\* The event loop serves the request whatever the scheduler's thread is doing
\* (BackgroundScheduler, main.py 155 and 216). The requests enumerated here are
\* those that arrive with no run before them and, while a job is crawling,
\* those for a directory the job does not write.
ManualUploadStart ==
  /\ loop = "free"
  /\ upc = "idle"
  /\ manuals < MaxJobs
  /\ jobs + manuals < MaxJobs \/ jpc = "crawl"
  /\ manuals' = manuals + 1
  /\ loop' = "run_upload"
  /\ cancel_event' = FALSE
  /\ sig' = NoSig
  /\ \E dir \in Dirs :
        /\ jpc = "crawl" => dir # OutputDir(job)
        /\ UploadCall(dir)
  /\ UNCHANGED <<crawlVars, crawlHist, schedVars, envVars, writers, stop_req>>

\* run_image (main.py 411-417): the one run_* coroutine that neither clears the
\* token nor passes it on. run_emart_image reads the snapshots of result_json
\* and writes image files, which are not part of this state; the event loop
\* is inside the handler until it answers.
run_image ==
  /\ loop = "free"
  /\ jpc = "idle"
  /\ jobs + manuals < MaxJobs
  /\ manuals' = manuals + 1
  /\ UNCHANGED <<cancel_event, sig, files, crawlVars, crawlHist, syncVars, storeVars,
                 syncHist, schedVars, envVars, writers, loop, stop_req>>

\* The upload returns its result to the endpoint.
ManualUploadEnd ==
  /\ loop = "run_upload"
  /\ upc = "returned"
  /\ loop' = "free"
  /\ upc' = "idle"
  /\ json_files' = <<>>
  /\ products' = <<>>
  /\ ridx' = 1
  /\ counters' = ZeroCounters
  /\ errInFile' = FALSE
  /\ UNCHANGED <<directory_path, result, storeVars, removed, lastObs, uploads, notified, sent, touched,
                 faults, files>>
  /\ UNCHANGED <<cancel_event, sig, crawlVars, crawlHist, schedVars, envVars, writers, stop_req, manuals>>

\* A POST /tasks/stop arrives while the event loop is inside a run_* handler:
\* the request waits for the loop.
StopRequestWaits ==
  /\ loop # "free"
  /\ ~stop_req
  /\ stop_req' = TRUE
  /\ UNCHANGED <<cancel_event, sig, files, crawlVars, crawlHist, syncVars, storeVars,
                 syncHist, schedVars, envVars, writers, loop, manuals>>

\* ------------------------------------------------------- the whole service
Init ==
  /\ cancel_event = FALSE
  /\ sig = NoSig
  /\ files = NoFiles
  /\ CrawlIdle
  /\ SyncIdle
  /\ StoreEmpty \/ StoreSeeded
  /\ CoordIdle

Next ==
  \/ SchedulerStart
  \/ SchedulerAfterCrawl
  \/ SchedulerDone
  \/ SchedulerOldDone
  \/ run_image
  \/ ManualCrawlStart
  \/ ManualCrawlEnd
  \/ ManualUploadStart
  \/ ManualUploadEnd
  \/ StopRequestWaits
  \/ CategoryStart
  \/ LoopTop
  \/ PreFetchCheck
  \/ FetchRetry
  \/ FetchOk
  \/ FetchError
  \/ PostFetchCheck
  \/ ExtractPageAll
  \/ ExtractPagePrice
  \/ ExtractError
  \/ SleepTick
  \/ PartialDump
  \/ FinalSave
  \/ FinalDump
  \/ ExitCheck
  \/ UploadEntry
  \/ UploadInitError
  \/ UploadGlob
  \/ FileLoop
  \/ FileLoadError
  \/ RecordStop
  \/ RecordSync
  \/ FileRemove
  \/ FileRemoveError
  \/ FinalCheck
  \/ tasks_stop
  \/ tasks_start

Spec == Init /\ [][Next]_vars

\* ----------------------------------------------------- the .env endpoint
\* The page range of a stored file is in order: the start page is an integer of
\* at least 1 and the end page is empty or an integer not below the start page.
PageRangeValid(env) ==
  /\ IsIntText(env.EMART_START_PAGE)
  /\ env.EMART_START_PAGE[1] >= 1
  /\ \/ env.EMART_END_PAGE = <<>>
     \/ /\ IsIntText(env.EMART_END_PAGE)
        /\ env.EMART_END_PAGE[1] >= env.EMART_START_PAGE[1]

\* POST /save_env (main.py 299-378): the handler reads the file, validates the
\* body, and writes the file back unless it answered 400.
save_env ==
  /\ \E data \in SaveEnvRequests :
        LET r == SaveEnvResult(dotenv, data)
        IN /\ dotenv' = r.env
           /\ env_resp' = [status |-> r.status, data |-> data]
  /\ UNCHANGED <<cancel_event, sig, files, crawlVars, crawlHist, syncVars, storeVars,
                 syncHist, schedVars, loopVars, writers>>

\* The service with a stored page range that is in order.
EnvInit ==
  /\ cancel_event = FALSE
  /\ sig = NoSig
  /\ files = NoFiles
  /\ CrawlIdle
  /\ SyncIdle
  /\ StoreEmpty
  /\ jpc = "idle"
  /\ job = "none"
  /\ jobs = 0
  /\ skipped = 0
  /\ loop = "free"
  /\ stop_req = FALSE
  /\ manuals = 0
  /\ dotenv \in {e \in Dotenvs : PageRangeValid(e)}
  /\ env_resp = NoResponse
  /\ writers = NoWriters

EnvNext == save_env

EnvSpec == EnvInit /\ [][EnvNext]_vars

\* ------------------------------------------------ two uploads at once
\* The records for product A that a snapshot file of an upload may hold.
RaceFiles(w) ==
  LET r1 == ScrapeItem(w, "Fruits", ItemA1)
      r2 == ScrapeItem(w, "Fruits", ItemA2)
  IN {<<r1>>, <<r2>>, <<r1, r2>>}

\* update_price_history line 42 in upload w: doc = price_ref.get().
PriceGet(w) ==
  /\ writers[w].pc = "get"
  /\ writers' = [writers EXCEPT ![w].pc = "set",
                                ![w].doc = emart_price[writers[w].todo[1].id]]
  /\ UNCHANGED <<cancel_event, sig, files, crawlVars, crawlHist, syncVars, storeVars,
                 syncHist, schedVars, loopVars, envVars>>

\* price_ref.set(data, merge=True), lines 63 and 66: the fields of data replace
\* the stored ones, price_history among them only when data carries it.
MergeSet(stored, r) ==
  IF r.status = "updated" THEN r.doc
  ELSE [r.doc EXCEPT !.price_history = IF stored.exists THEN stored.price_history ELSE <<>>]

\* update_price_history lines 43-66 in upload w: compare the record with the
\* document read at line 42 and write; then the next record of the file.
PriceSet(w) ==
  /\ writers[w].pc = "set"
  /\ LET product == writers[w].todo[1]
         r == update_price_history(writers[w].doc, product.out_of_stock, product.quantity,
                                   product.last_updated, PriceInfo(product), FALSE)
         rest == Tail(writers[w].todo)
     IN /\ emart_price' = [emart_price EXCEPT ![product.id] = MergeSet(@, r)]
        /\ writers' = [writers EXCEPT
                         ![w].pc = IF rest = <<>> THEN "done" ELSE "get",
                         ![w].todo = rest,
                         ![w].doc = NoPriceDoc,
                         ![w].appended = IF r.status = "updated"
                                         THEN Append(@, PriceInfo(product)) ELSE @]
  /\ UNCHANGED <<cancel_event, sig, files, crawlVars, crawlHist, syncVars, emart_product,
                 syncHist, schedVars, loopVars, envVars>>

RaceGet == \E w \in Writers : PriceGet(w)

RaceSet == \E w \in Writers : PriceSet(w)

\* Both uploads are at the head of their record loop, each with its own file.
RaceInit ==
  /\ cancel_event = FALSE
  /\ sig = NoSig
  /\ files = NoFiles
  /\ CrawlIdle
  /\ SyncIdle
  /\ StoreEmpty \/ StoreSeeded
  /\ jpc = "idle"
  /\ job = "none"
  /\ jobs = 0
  /\ skipped = 0
  /\ loop = "free"
  /\ stop_req = FALSE
  /\ manuals = 0
  /\ dotenv = DotenvAtStart
  /\ env_resp = NoResponse
  /\ \E fa \in RaceFiles("all"), fp \in RaceFiles("price") :
        writers = [w \in Writers |->
                     [pc |-> "get", todo |-> IF w = "all" THEN fa ELSE fp,
                      doc |-> NoPriceDoc, appended |-> <<>>]]

RaceNext ==
  \/ RaceGet
  \/ RaceSet

RaceSpec == RaceInit /\ [][RaceNext]_vars

\* ------------------------------------------------- properties: the crawlers
\* The records of s in first-seen order: a record is kept iff its id is empty
\* or no earlier record of s carries the same id.
RECURSIVE FirstSeen(_, _)
FirstSeen(s, n) ==
  IF n = 0 THEN <<>>
  ELSE IF s[n].id = "" \/ \A j \in 1..(n - 1) : s[j].id # s[n].id
       THEN Append(FirstSeen(s, n - 1), s[n])
       ELSE FirstSeen(s, n - 1)

ExpectedBuffer(s) == FirstSeen(s, Len(s))

CurrentSnapshot == files[OutputDir(ckind)][CategoryName]

\* C1: whenever a crawler leaves a category (normally, on cancellation, on the
\* cap, or on a fetch / extraction error), the category's snapshot file holds
\* the accumulated records and the final save ran exactly once.
C1_EveryExitSaves ==
  lastExit # NoExit => (lastExit.saved /\ lastExit.writes = 1)

\* C1, by exit path: the exits through a break or the end of the loop save
\* exactly once; the exits through an exception never reach the final save.
C1_SavedUnlessRaised ==
  lastExit # NoExit =>
    IF lastExit.reason \in {"fetch-error", "extract-error"}
    THEN lastExit.writes = 0
    ELSE lastExit.saved /\ lastExit.writes = 1

\* A category left on a fetch error after records were collected.
C1_LostRecords ==
  /\ cpc = "cat_check"
  /\ lastExit.reason = "fetch-error"
  /\ Len(collected) > 0
  /\ ~lastExit.saved
  /\ ~files[OutputDir(ckind)][Categories[lastExit.cat]].exists

\* The full crawler has just written the final snapshot of a category whose
\* loop ended on the token, and the token is still set.
CancelledExit ==
  /\ ckind = "all"
  /\ cpc = "exit_check"
  /\ breakReason = "cancelled"
  /\ cancel_event

\* C2 (as stated): when the signal arrives before page k+1 is appended, the
\* snapshot written at exit holds exactly the deduplicated records of the pages
\* appended before the signal.
C2_SnapshotIsPagesBeforeSignal ==
  CancelledExit => CurrentSnapshot = File(ExpectedBuffer(SubSeq(raw, 1, sig.len)))

\* C2 (amended): the snapshot written at a cancelled exit is the deduplicated
\* buffer; it holds exactly the pages appended before the signal when the signal
\* arrived before the post-fetch check of the next page passed (a page whose
\* fetch completes after the signal adds nothing), and exactly one more page
\* when the signal arrived between that check and the append.
C2_PartialDurability ==
  CancelledExit =>
    /\ CurrentSnapshot = File(ExpectedBuffer(raw))
    /\ ~sig.late => (Len(raw) = sig.len /\ page_num = sig.page)
    /\ sig.late => page_num = sig.page + 1

\* A cancelled exit after one full page, the signal having arrived while the
\* next page was being extracted; the snapshot holds both pages.
C2_Witness ==
  /\ CancelledExit
  /\ sig.late
  /\ sig.len > 0
  /\ Len(raw) > sig.len
  /\ CurrentSnapshot = File(collected)

\* A cancelled exit where the signal arrived while page k+1 was being fetched:
\* the snapshot holds the pages through k only.
C2_WitnessFetchInFlight ==
  /\ CancelledExit
  /\ ~sig.late
  /\ sig.len > 0
  /\ fetches = 2
  /\ visited_pages = 1

\* C6: in the full crawler the buffer is the first-seen deduplication of the
\* records extracted so far in this category (ids seen in an earlier category
\* do not count, records with an empty id are all kept), no non-empty id occurs
\* twice in it, and the final snapshot is that buffer.
C6_Dedup ==
  (ckind = "all" /\ cpc \notin {"idle", "raised"}) =>
    /\ collected = ExpectedBuffer(raw)
    /\ \A i, j \in 1..Len(collected) :
         (i # j /\ collected[i].id # "") => collected[i].id # collected[j].id
    /\ seen_ids = {raw[i].id : i \in 1..Len(raw)} \ {""}
    /\ cpc = "exit_check" => CurrentSnapshot = File(collected)

\* The second category's snapshot keeps an id the first category already
\* saved, drops its repetition, and keeps two records with an empty id.
C6_Witness ==
  /\ ckind = "all"
  /\ cpc = "exit_check"
  /\ cat_idx = 2
  /\ CurrentSnapshot = File(collected)
  /\ \E i \in 1..Len(files["result_json"]["Fruits"].data) :
       files["result_json"]["Fruits"].data[i].id = "A"
  /\ Cardinality({i \in 1..Len(raw) : raw[i].id = "A"}) = 2
  /\ Cardinality({i \in 1..Len(collected) : collected[i].id = "A"}) = 1
  /\ collected[1].id = "A"
  /\ Cardinality({i \in 1..Len(collected) : collected[i].id = ""}) = 2

\* C7: the full crawler fetches at most page_cap pages of a category.
C7_FetchBound ==
  (ckind = "all" /\ cpc \notin {"idle", "raised"}) => fetches <= cfg.page_cap

\* The cap ends a category after page_cap fetches, with the page range open,
\* the empty-page rule disabled and a start page other than 1.
C7_Witness ==
  /\ ckind = "all"
  /\ cpc = "save"
  /\ breakReason = "page-cap-reached"
  /\ cfg.page_cap = MaxPageCap
  /\ fetches = cfg.page_cap
  /\ cfg.end_page = 0
  /\ cfg.empty_page_stop = 0
  /\ cfg.start_page = 2

\* ------------------------------------------------- properties: the uploader
Pair(entry) == <<entry.original_price, entry.selling_price>>

IsPrefix(a, b) == Len(a) <= Len(b) /\ SubSeq(b, 1, Len(a)) = a

\* The step in which upload_json_to_firestore takes one record with a
\* non-empty id through the price path.
PriceSyncStep ==
  /\ upc = "record_loop"
  /\ ridx <= Len(products)
  /\ ridx' = ridx + 1
  /\ products[ridx].id # ""
  /\ beacon(directory_path) \in {1, 2}

\* C3: when the latest price sync of an id was given the same price pair and
\* did not fail, the next sync of that pair classifies 'skipped' (or fails) and
\* leaves the history as it was, whatever its timestamp; the history then ends
\* with exactly one entry for that pair.
C3_IdempotentPriceSync ==
  [][PriceSyncStep =>
       LET id == products[ridx].id
           info == PriceInfo(products[ridx])
           o == lastObs[id]
           old == emart_price[id].price_history
           new == emart_price'[id].price_history
       IN (o.status \in {"updated", "skipped"} /\ Pair(o) = Pair(info)) =>
            /\ new = old
            /\ lastObs'[id].status \in {"skipped", "error"}
            /\ Len(new) > 0
            /\ Pair(new[Len(new)]) = Pair(info)
            /\ Len(new) > 1 => Pair(new[Len(new) - 1]) # Pair(info)]_vars

\* One upload synced id A twice with the pair (100, 90), observed at t1 and
\* then at t3: one 'updated', one 'skipped', one history entry.
C3_Witness ==
  /\ lastObs["A"] = [original_price |-> "100", selling_price |-> "90", status |-> "skipped"]
  /\ Len(emart_price["A"].price_history) = 1
  /\ emart_price["A"].price_history[1].last_updated = "t1"
  /\ emart_price["A"].last_updated = "t3"
  /\ counters.price_updated = 1
  /\ counters.price_skipped = 1

\* C4: a price sync that does not fail appends the incoming snapshot and counts
\* 'updated' iff the stored history is empty or its last pair differs from the
\* incoming pair; otherwise it leaves the history alone and counts 'skipped';
\* both write the top-level fields. A failed sync changes nothing.
C4_AppendIffChanged ==
  [][PriceSyncStep =>
       LET product == products[ridx]
           id == product.id
           info == PriceInfo(product)
           old == emart_price[id]
           new == emart_price'[id]
           h == old.price_history
           differs == Len(h) = 0 \/ Pair(h[Len(h)]) # Pair(info)
           topWritten == /\ new.exists
                         /\ new.out_of_stock = product.out_of_stock
                         /\ new.quantity = product.quantity
                         /\ new.last_updated = product.last_updated
       IN \/ /\ lastObs'[id].status = "error"
             /\ new = old
             /\ counters'.price_updated = counters.price_updated
             /\ counters'.price_skipped = counters.price_skipped
          \/ /\ differs
             /\ lastObs'[id].status = "updated"
             /\ new.price_history = Append(h, info)
             /\ topWritten
             /\ counters'.price_updated = counters.price_updated + 1
             /\ counters'.price_skipped = counters.price_skipped
          \/ /\ ~differs
             /\ lastObs'[id].status = "skipped"
             /\ new.price_history = h
             /\ topWritten
             /\ counters'.price_updated = counters.price_updated
             /\ counters'.price_skipped = counters.price_skipped + 1]_vars

\* The history (100,90) took (100,80) and then (100,90) again, and id B was
\* synced twice with one pair.
C4_Witness ==
  /\ Len(emart_price["A"].price_history) = 3
  /\ Pair(emart_price["A"].price_history[1]) = <<"100", "90">>
  /\ Pair(emart_price["A"].price_history[2]) = <<"100", "80">>
  /\ Pair(emart_price["A"].price_history[3]) = <<"100", "90">>
  /\ lastObs["B"].status = "skipped"
  /\ Len(emart_price["B"].price_history) = 1

\* C5: every step leaves each id's stored price history a prefix of the new one.
C5_HistoryAppendOnly ==
  [][\A i \in Ids : IsPrefix(emart_price[i].price_history,
                             emart_price'[i].price_history)]_vars

\* After two uploads the seeded entry of A is still first and two more follow.
C5_Witness ==
  /\ uploads = 2
  /\ upc = "returned"
  /\ Len(emart_price["A"].price_history) >= 3
  /\ emart_price["A"].price_history[1].last_updated = "t0"
  /\ result.status = "success"

\* C8: an upload that returned because the token was seen set before a record
\* has status 'stopped' and carries the counters reached; that record was not
\* taken, and the file and the files after it are still in place.
C8_StoppedInFile ==
  (upc = "returned" /\ result.message = "in-file") =>
    /\ result.status = "stopped"
    /\ result.has_counters
    /\ result.counters = counters
    /\ ridx <= Len(products)
    /\ json_files # <<>>
    /\ \A k \in 1..Len(json_files) : files[directory_path][json_files[k]].exists
    /\ files[directory_path][json_file].data = products

\* The token was seen set before the second record of the first of two files,
\* after one price was appended.
C8_Witness ==
  /\ upc = "returned"
  /\ result.message = "in-file"
  /\ ridx = 2
  /\ Len(json_files) = 2
  /\ result.counters.price_updated = 1

\* C9: a file is removed only when no store operation failed for its records.
C9_RemovedImpliesSynced == removed # "after-error"

\* ------------------------------------------------ properties: the scheduler
\* C10: when the crawl of a scheduled job ended because it saw the token set,
\* the job's upload never reads or writes the store, removes a file or notifies.
C10_SyncSkippedAfterCancelledCrawl ==
  endedOnCancel => ~(jpc = "upload" /\ touched)

\* C11: a stop requested while a run is in progress is set during that run:
\* no stop request that arrived during a run is still waiting when the run is
\* over.
C11_StopSetDuringRun == ~(stop_req /\ loop = "free")

\* C11, what holds instead: while a run_* endpoint is executing, the token it
\* cleared stays clear, so the run never observes a stop.
C11_ManualRunNeverStopped == loop # "free" => ~cancel_event

\* ------------------------------------------- properties: the product path
\* The step in which upload_json_to_firestore takes one record with a
\* non-empty id through the product path.
ProductSyncStep ==
  /\ upc = "record_loop"
  /\ ridx <= Len(products)
  /\ ridx' = ridx + 1
  /\ products[ridx].id # ""
  /\ beacon(directory_path) \in {1, 3}

\* C12: a product sync that does not fail does exactly one of: create the
\* document with is_emb = "R" and count 'new'; write last_updated only and count
\* 'skipped' (name and image equal); write name, image, last_updated and
\* is_emb = "R" and count 'updated' (name or image differs).
C12_ProductClassification ==
  [][ProductSyncStep =>
       LET product == products[ridx]
           old == emart_product[product.id]
           new == emart_product'[product.id]
           dn == counters'.product_new - counters.product_new
           du == counters'.product_updated - counters.product_updated
           ds == counters'.product_skipped - counters.product_skipped
           same == /\ old.product_name = product.product_name
                   /\ old.image_url = product.image_url
       IN \/ /\ new = old
             /\ <<dn, du, ds>> = <<0, 0, 0>>
          \/ /\ ~old.exists
             /\ new = [exists |-> TRUE, id |-> product.id, category |-> product.category,
                       image_url |-> product.image_url,
                       last_updated |-> product.last_updated,
                       product_address |-> product.product_address,
                       product_name |-> product.product_name, is_emb |-> "R"]
             /\ <<dn, du, ds>> = <<1, 0, 0>>
          \/ /\ old.exists
             /\ same
             /\ new = [old EXCEPT !.last_updated = product.last_updated]
             /\ <<dn, du, ds>> = <<0, 0, 1>>
          \/ /\ old.exists
             /\ ~same
             /\ new = [old EXCEPT !.product_name = product.product_name,
                                  !.image_url = product.image_url,
                                  !.last_updated = product.last_updated,
                                  !.is_emb = "R"]
             /\ <<dn, du, ds>> = <<0, 1, 0>>]_vars

\* One upload of result_json classified one record of each kind: A unchanged
\* (skipped), B absent (new), A with another image (updated).
C12_Witness ==
  /\ directory_path = "result_json"
  /\ counters.product_new = 1
  /\ counters.product_updated = 1
  /\ counters.product_skipped = 1
  /\ emart_product["A"].image_url = "a3.jpg"
  /\ emart_product["B"].is_emb = "R"

\* C13: a step never removes or re-creates an existing product document and
\* never changes its id, category or address; is_emb becomes "R" when the name
\* or the image changes and keeps its value when neither does.
C13_ProductFrame ==
  [][\A i \in Ids :
       LET old == emart_product[i]
           new == emart_product'[i]
       IN old.exists =>
            /\ new.exists
            /\ new.id = old.id
            /\ new.category = old.category
            /\ new.product_address = old.product_address
            /\ IF new.product_name # old.product_name \/ new.image_url # old.image_url
               THEN new.is_emb = "R"
               ELSE new.is_emb = old.is_emb]_vars

\* The embedded document of A, created from category Fruits, took a record of
\* category Vegetables with another image: image, time and is_emb changed,
\* category and address did not.
C13_Witness ==
  /\ emart_product["A"].category = "Fruits"
  /\ emart_product["A"].id = "A"
  /\ emart_product["A"].image_url = "a3.jpg"
  /\ emart_product["A"].last_updated = "t3"
  /\ emart_product["A"].is_emb = "R"
  /\ emart_product["A"].product_address = ScrapeItem("all", "Fruits", ItemA0).product_address

\* The embedded document of A took a record with the same name and image:
\* only the time changed, is_emb is still "Y".
C13_WitnessUntouched ==
  /\ emart_product["A"].is_emb = "Y"
  /\ emart_product["A"].last_updated = "t1"
  /\ counters.product_skipped = 1

\* ---------------------------------------------- properties: record handling
\* The step in which upload_json_to_firestore passes a record with an empty id.
EmptyIdStep ==
  /\ upc = "record_loop"
  /\ ridx <= Len(products)
  /\ ridx' = ridx + 1
  /\ products[ridx].id = ""

\* C14: the step that takes a record with an empty id leaves both collections
\* and every counter as they were and uses the store for nothing; no document
\* is ever stored under the empty id.
C14_EmptyIdNeverUpserted ==
  [][/\ EmptyIdStep => /\ UNCHANGED <<emart_price, emart_product, counters>>
                       /\ UNCHANGED <<touched, lastObs>>
     /\ ~emart_price'[""].exists
     /\ ~emart_product'[""].exists]_vars

\* The upload of result_json has passed the empty-id record of Fruits.json:
\* two records iterated, one counted on each path.
C14_Witness ==
  /\ upc = "record_loop"
  /\ directory_path = "result_json"
  /\ Len(products) = 2
  /\ products[2].id = ""
  /\ ridx = 3
  /\ counters.price_updated + counters.price_skipped = 1
  /\ counters.product_new + counters.product_updated + counters.product_skipped = 1

\* The length of the run of empty yields that ends the sequence ys.
RECURSIVE TrailingEmpties(_)
TrailingEmpties(ys) ==
  IF ys = <<>> THEN 0
  ELSE IF ys[Len(ys)] THEN 1 + TrailingEmpties(SubSeq(ys, 1, Len(ys) - 1))
  ELSE 0

\* Page k of the current category completes a streak of threshold consecutive
\* pages whose deduplicated yield is empty.
CompletesStreak(k) ==
  /\ cfg.empty_page_stop > 0
  /\ TrailingEmpties(SubSeq(yields, 1, k)) >= cfg.empty_page_stop

\* C15: with a positive threshold the full crawler ends a category with the
\* reason 'empty-pages' exactly at the first page that completes a streak of
\* threshold consecutive pages with an empty deduplicated yield (a page of
\* already-seen records counts as empty, a non-empty yield resets the streak);
\* with a threshold of 0 or less it never ends a category for that reason.
C15_EmptyPageStop ==
  (ckind = "all" /\ cpc # "idle") =>
    /\ (breakReason = "empty-pages") <=> CompletesStreak(Len(yields))
    /\ \A k \in 1..(Len(yields) - 1) : ~CompletesStreak(k)
    /\ consecutive_empty = TrailingEmpties(yields)

\* A category ended on two empty pages in a row under threshold 2, and saved.
C15_Witness ==
  /\ ckind = "all"
  /\ cpc = "cat_check"
  /\ cfg.empty_page_stop = 2
  /\ yields = <<TRUE, TRUE>>
  /\ lastExit.reason = "empty-pages"
  /\ lastExit.saved

\* A page that holds only records already seen ends the category under threshold 1.
C15_WitnessSeenOnly ==
  /\ ckind = "all"
  /\ cfg.empty_page_stop = 1
  /\ yields = <<FALSE, TRUE>>
  /\ Len(raw) = 6
  /\ Len(collected) = 2
  /\ breakReason = "empty-pages"

\* A non-empty yield after an empty page resets the streak; the crawl goes on.
C15_WitnessReset ==
  /\ ckind = "all"
  /\ cpc = "sleep"
  /\ cfg.empty_page_stop = 2
  /\ yields = <<TRUE, FALSE>>
  /\ consecutive_empty = 0

\* Threshold 0: two empty pages in a row and the category is not ended by them.
C15_WitnessDisabled ==
  /\ ckind = "all"
  /\ cfg.empty_page_stop = 0
  /\ yields = <<TRUE, TRUE>>
  /\ breakReason = "page-cap-reached"

\* C16: after a page is merged the full crawler ends the category with the
\* reason 'no-next-page' exactly when the DOM signal is a definite False, even
\* when the page yielded new records, which stay in the buffer and reach the
\* final snapshot; a signal of True or None never ends the category.
C16_DomNextPageSignal ==
  (ckind = "all" /\ cpc # "idle") =>
    /\ (breakReason = "no-next-page") <=> (has_next = "False")
    /\ has_next \in {"True", "None"} =>
         (cpc \in {"partial_dump", "sleep"} /\ breakReason = "none")
    /\ breakReason = "no-next-page" => collected = ExpectedBuffer(raw)
    /\ (lastExit.reason = "no-next-page" /\ cpc \in {"cat_check", "returned"}) =>
          lastExit.saved

\* A category ended by a definite False on a page that yielded new records; the
\* records are in the final snapshot.
C16_Witness ==
  /\ ckind = "all"
  /\ cpc = "cat_check"
  /\ has_next = "False"
  /\ lastExit.reason = "no-next-page"
  /\ lastExit.saved
  /\ yields # <<>>
  /\ ~yields[Len(yields)]
  /\ Len(collected) > 0

\* An indeterminate signal: the crawl sleeps and goes on to the next page.
C16_WitnessIndeterminate ==
  /\ ckind = "all"
  /\ cpc = "sleep"
  /\ has_next = "None"
  /\ breakReason = "none"

\* C17: an error raised while extracting the records of a fetched page counts
\* as a page of zero records: no category is ever left because of it.
C17_ExtractErrorIsEmptyPage ==
  lastExit # NoExit => lastExit.reason # "extract-error"

\* The category was left on an extraction error with records in the buffer and
\* without the final save.
C17_CategoryLeft ==
  /\ ckind = "all"
  /\ cpc = "cat_check"
  /\ lastExit.reason = "extract-error"
  /\ Len(collected) > 0
  /\ lastExit.writes = 0

\* A page fetch of the current category fails.
FetchFailureStep == cpc = "fetch" /\ cpc' \notin {"fetch", "post_fetch"}

\* C20: a fatal page-fetch failure ends only the current category: the error
\* does not leave the crawler, which goes to the head of the category loop with
\* the next category, its configuration and the files untouched.
C20_FetchFailureAbortsCategoryOnly ==
  [][FetchFailureStep =>
       /\ cpc' = "cat_check"
       /\ cat_idx' = cat_idx + 1
       /\ lastExit'.reason = "fetch-error"
       /\ lastExit'.cat = cat_idx
       /\ UNCHANGED <<ckind, cfg, files, endedOnCancel>>]_vars

\* The first category was left on a fetch failure and the second category is
\* being crawled: a page of it is in hand.
C20_Witness ==
  /\ lastExit.reason = "fetch-error"
  /\ lastExit.cat = 1
  /\ cat_idx = 2
  /\ cpc = "extract"
  /\ html # NoHtml

\* ------------------------------------------ properties: store failures
\* The step in which a store call made for the record in hand raises.
StoreFailureStep ==
  /\ upc = "record_loop"
  /\ ridx <= Len(products)
  /\ faults' > faults

PriceDocAfter(product) ==
  update_price_history(emart_price[product.id], product.out_of_stock, product.quantity,
                       product.last_updated, PriceInfo(product), FALSE).doc

ProductDocAfter(product) == upsert_product(emart_product[product.id], product, FALSE).doc

\* C18: a store failure on one record is caught: the loop takes the next record
\* of the same file, the file list, the file and the pending result stay as
\* they were, the documents of the other ids are untouched, the failing path
\* writes nothing, and the other path of the same record does its usual work.
C18_RecordFailureIsLocal ==
  [][StoreFailureStep =>
       LET product == products[ridx]
           b == beacon(directory_path)
       IN /\ upc' = "record_loop"
          /\ ridx' = ridx + 1
          /\ UNCHANGED <<products, json_files, result, files, directory_path>>
          /\ \A other \in DocKeys \ {product.id} :
                /\ emart_price'[other] = emart_price[other]
                /\ emart_product'[other] = emart_product[other]
          /\ emart_price'[product.id] \in
                {emart_price[product.id]} \cup
                (IF b = 1 THEN {PriceDocAfter(product)} ELSE {})
          /\ emart_product'[product.id] \in
                {emart_product[product.id]} \cup
                (IF b = 1 THEN {ProductDocAfter(product)} ELSE {})
          /\ \/ emart_price'[product.id] = emart_price[product.id]
             \/ emart_product'[product.id] = emart_product[product.id]
          /\ \A k \in DOMAIN counters : counters'[k] >= counters[k]]_vars

\* The price file of three records was iterated to its end although one store
\* call failed: the two other records were counted.
C18_Witness ==
  /\ upc = "record_loop"
  /\ directory_path = "result_price_json"
  /\ Len(products) = 3
  /\ ridx = 4
  /\ errInFile
  /\ counters.price_updated + counters.price_skipped = 2

\* The errors tally of a set of counters; 0 when the counters carry none.
ErrorsTally(c) == IF "errors" \in DOMAIN c THEN c.errors ELSE 0

PriceTally(c) == c.price_updated + c.price_skipped + ErrorsTally(c)

ProductTally(c) == c.product_new + c.product_updated + c.product_skipped + ErrorsTally(c)

\* C19: the counters carry an errors tally, so that every record with a
\* non-empty id taken through an enabled path adds exactly one to that path's
\* counters (updated or new, skipped, errors).
C19_CountersAccountForErrors ==
  [][/\ PriceSyncStep => PriceTally(counters') = PriceTally(counters) + 1
     /\ ProductSyncStep => ProductTally(counters') = ProductTally(counters) + 1]_vars

\* What the counters do: a record adds one to its path's counters exactly when
\* its store calls did not fail; a failed record is counted nowhere.
C19_FailuresUncounted ==
  [][/\ (PriceSyncStep /\ ~StoreFailureStep) =>
          PriceTally(counters') = PriceTally(counters) + 1
     /\ (ProductSyncStep /\ ~StoreFailureStep) =>
          ProductTally(counters') = ProductTally(counters) + 1
     /\ (StoreFailureStep /\ beacon(directory_path) # 1) => counters' = counters]_vars

\* ------------------------------------------ properties: containment
\* C21: an exception raised while one snapshot file is processed is contained
\* in that file: the upload never returns on an exception with files of its
\* list still waiting behind the one that failed.
C21_FileErrorContained ==
  (upc = "returned" /\ result.status = "error" /\ result.message = "exception") =>
     Len(json_files) <= 1

\* What the code does contain: an exception of a category (C20) and an
\* exception of the upload never reach the scheduler job; the upload turns
\* them into an 'error' result. The job goes on after a returned upload.
C21_UploadReturnsError ==
  [][(upc = "file_loop" /\ faults' > faults) =>
        /\ upc' = "returned"
        /\ result'.status = "error"
        /\ UNCHANGED <<files, storeVars, counters, json_files>>]_vars

\* -------------------------------------- properties: cancellation of a crawl
\* C22: while the token is set, the crawler does not pass the check before a
\* fetch (so the only fetch that can still complete is the one already past
\* it), does not pass the check after a fetch (the response in hand is not
\* extracted), enters no further category, and writes no snapshot of a
\* category after the current one.
C22_NoFetchAfterSignal ==
  [][(cancel_event /\ cancel_event') =>
       /\ ~(cpc # "fetch" /\ cpc' = "fetch")
       /\ ~(cpc # "extract" /\ cpc' = "extract")
       /\ ~(cpc = "cat_check" /\ cpc' = "loop_top")
       /\ (cpc # "fetch" => fetches' <= fetches)
       /\ cpc # "idle" =>
            \A i \in 1..Len(Categories) :
               i > cat_idx =>
                 files'[OutputDir(ckind)][Categories[i]] = files[OutputDir(ckind)][Categories[i]]]_vars

\* The token was set while the first page of the first category was fetched:
\* the response is in hand and was not extracted, the crawler has returned
\* after that one fetch, and the second category has no snapshot.
C22_Witness ==
  /\ cancel_event
  /\ cpc = "returned"
  /\ endedOnCancel
  /\ cat_idx = 1
  /\ fetches = 1
  /\ html # NoHtml
  /\ raw = <<>>
  /\ files[OutputDir(ckind)][Categories[1]] = File(<<>>)
  /\ ~files[OutputDir(ckind)][Categories[2]].exists

\* C23: every tick of the inter-page sleep is preceded by a check of the token:
\* with the token set no further tick is slept, whatever is left of the sleep
\* (the tick during which the token was set is the last one); the crawler then
\* leaves the page loop, saves, and returns.
C23_SleepCancelLatency ==
  [][(cancel_event /\ cancel_event') =>
       /\ cpc = "sleep" => (cpc' = "loop_top" /\ remain' = remain)
       /\ cpc = "loop_top" => cpc' = "save"
       /\ cpc = "save" => cpc' = "dump"
       /\ cpc = "dump" => cpc' = "exit_check"
       /\ cpc = "exit_check" => (cpc' = "returned" /\ endedOnCancel')]_vars

\* The token was set during the first tick of a sleep of PageDelayTicks ticks:
\* the crawler has returned and the rest of the sleep was never slept.
C23_Witness ==
  /\ cancel_event
  /\ cpc = "returned"
  /\ endedOnCancel
  /\ cfg.page_delay = PageDelayTicks
  /\ remain = PageDelayTicks - 1
  /\ remain > 0
  /\ visited_pages = 1

C24_CancelledSyncReportsStopped ==
  [][(cancel_event /\ upc \in {"entry", "file_loop", "record_loop", "final_check"}
        /\ upc' = "returned" /\ faults' = faults) =>
       /\ result'.status = "stopped"
       /\ upc # "entry" => (result'.has_counters /\ result'.counters = counters)
       /\ UNCHANGED <<storeVars, files>>]_vars

\* ------------------------------------- properties: the file loop
\* The files of the glob result that the upload has not finished yet.
Waiting == {json_files[i] : i \in 1..Len(json_files)}

\* The upload is between its glob and its return.
InFileLoop == upc \in {"file_loop", "record_loop", "final_check"}

\* C25: the files are taken one after another. Leaving a file whose records
\* were all iterated removes it (or fails to, which is only printed) and goes on
\* to the rest of the list; whenever a file is opened, every file the upload
\* has finished before is gone from the directory, unless a removal failed.
C25_FileRemovedBeforeNext ==
  [][/\ (upc = "record_loop" /\ upc' = "file_loop") =>
          /\ json_files' = Tail(json_files)
          /\ counters' = counters
          /\ IF faults' > faults
             THEN files' = files
             ELSE files' = [files EXCEPT ![directory_path][json_file] = NoFile]
     /\ (upc = "file_loop" /\ upc' = "record_loop" /\ faults = 0) =>
          /\ products' = files[directory_path][json_file].data
          /\ \A c \in CategorySet \ Waiting : ~files[directory_path][c].exists]_vars

\* The second of two files is being read and the first one is gone.
C25_Witness ==
  /\ upc = "record_loop"
  /\ directory_path = "result_json"
  /\ Len(json_files) = 1
  /\ removed = "clean"
  /\ faults = 0
  /\ files[directory_path][json_file].exists
  /\ \E c \in CategorySet \ Waiting : ~files[directory_path][c].exists
  /\ ridx > 1

\* The removal of the first file failed and the second file is being read.
C25_WitnessRemoveFailed ==
  /\ upc = "record_loop"
  /\ directory_path = "result_json"
  /\ Len(json_files) = 1
  /\ removed = "none"
  /\ faults = 1
  /\ \A c \in CategorySet : files[directory_path][c].exists
  /\ ridx > 1

C26_WitnessUnset ==
  /\ upc = "returned"
  /\ notified = 0
  /\ result.status = "success"

\* ------------------------------------- properties: one page fetch
\* A step of the session.get the full crawler has in progress: a retry, or its end.
FetchStep == ckind = "all" /\ cpc = "fetch" /\ (attempts' # attempts \/ cpc' # cpc)

\* The failures the retry rule covers: no response, or a status of the list.
RetryableFailure(status) == status = ConnFailure \/ status \in {429, 500, 502, 503, 504}

\* C27: one page fetch of the full crawler uses at most RetryTotal retries; each retry follows a
\* connection/timeout failure or one of the statuses 429, 500, 502, 503, 504
\* and uses up one unit of the budget; the fetch ends with the page, or with a
\* fatal error for the page, which for a retryable failure happens only when
\* the budget is used up; a status 4xx other than 429 is never retried and ends
\* the fetch with the fatal error.
C27_BoundedRetry ==
  [][FetchStep =>
       /\ attempts <= RetryTotal
       /\ cpc' = "fetch" =>
            /\ attempts' = attempts + 1
            /\ attempts' <= RetryTotal
            /\ RetryableFailure(resp_status')
       /\ cpc' # "fetch" =>
            \/ cpc' = "post_fetch" /\ resp_status' = 200
            \/ /\ cpc' = "cat_check"
               /\ lastExit'.reason = "fetch-error"
               /\ resp_status' # 200
               /\ RetryableFailure(resp_status') => attempts = RetryTotal
       /\ (resp_status' \in 400..499 /\ resp_status' # 429) => cpc' = "cat_check"]_vars

\* The session.get in progress has used its five retries, the last of them
\* after a 503: the sixth request is out.
C27_Witness ==
  /\ ckind = "all"
  /\ cpc = "fetch"
  /\ attempts = RetryTotal
  /\ resp_status = 503

\* A 404 on the first attempt ended the fetch: the category was left.
C27_WitnessNotRetried ==
  /\ ckind = "all"
  /\ cpc = "cat_check"
  /\ resp_status = 404
  /\ fetches = 1
  /\ lastExit.reason = "fetch-error"

\* C28: no two crawl or sync executions ever overlap: while a scheduled job
\* runs, no manual run_* request is being served, and the other way round.
\* The scheduler's jobs run in BackgroundScheduler's worker threads, the
\* run_* handlers in the event loop; no lock or flag is shared between them.
C28_NoOverlap ==
  ~(jpc # "idle" /\ loop # "free")

\* C29: a snapshot write, partial or final, replaces the file atomically: at
\* every moment a reader of a snapshot file finds a complete JSON document (the
\* previous contents or the new ones), never an empty or cut file.
C29_SnapshotNeverTruncated ==
  \A d \in Dirs : \A c \in CategorySet : files[d][c].exists => files[d][c].complete

\* What does hold: outside the two steps of a write the files are complete, and
\* the file a write has finished holds the records collected so far.
C29_CompleteOutsideWrite ==
  /\ cpc \notin {"dump", "partial_dump"} => C29_SnapshotNeverTruncated
  /\ cpc \in {"dump", "partial_dump"} => files[OutputDir(ckind)][CategoryName] = Truncated

\* ------------------------------------------ properties: the store kind
\* The store kind of the upload in hand, by its directory.
PriceOnly == directory_path = "result_price_json"
ProductOnly == directory_path = "result_non_price_json"
PriceAndProduct == directory_path = "result_json"

\* The step that takes one record with an id, no store call failing.
RecordStep ==
  /\ upc = "record_loop"
  /\ ridx <= Len(products)
  /\ ridx' = ridx + 1
  /\ products[ridx].id # ""
  /\ faults' = faults

ProductCounters(c) == <<c.product_new, c.product_updated, c.product_skipped>>
PriceCounters(c) == <<c.price_updated, c.price_skipped>>

\* C30: an upload of the price directory never changes the product collection,
\* its price documents are what the price path makes of the price collection
\* alone, and its three product counters stay 0; an upload of the non-price
\* directory never changes the price collection and its two price counters stay
\* 0; an upload of result_json runs both paths on every record: one price
\* counter and one product counter go up by one.
C30_StoreKindFraming ==
  [][/\ (upc # "idle" /\ PriceOnly) =>
          /\ emart_product' = emart_product
          /\ ProductCounters(counters) = <<0, 0, 0>>
          /\ RecordStep =>
               emart_price'[products[ridx].id] = PriceDocAfter(products[ridx])
     /\ (upc # "idle" /\ ProductOnly) =>
          /\ emart_price' = emart_price
          /\ lastObs' = lastObs
          /\ PriceCounters(counters) = <<0, 0>>
          /\ RecordStep =>
               emart_product'[products[ridx].id] = ProductDocAfter(products[ridx])
     /\ (PriceAndProduct /\ RecordStep) =>
          /\ emart_price'[products[ridx].id] = PriceDocAfter(products[ridx])
          /\ emart_product'[products[ridx].id] = ProductDocAfter(products[ridx])
          /\ counters'.price_updated + counters'.price_skipped
               = counters.price_updated + counters.price_skipped + 1
          /\ counters'.product_new + counters'.product_updated + counters'.product_skipped
               = counters.product_new + counters.product_updated
                 + counters.product_skipped + 1]_vars

\* A price upload has succeeded on a store that held products: prices were
\* stored and counted, the product counters are 0.
C30_Witness ==
  /\ upc = "returned"
  /\ PriceOnly
  /\ result.status = "success"
  /\ result.counters.price_updated > 0
  /\ ProductCounters(result.counters) = <<0, 0, 0>>
  /\ \E i \in Ids : emart_product[i].exists
  /\ faults = 0

\* A non-price upload has succeeded: products were counted, no price was.
C30_WitnessProductOnly ==
  /\ upc = "returned"
  /\ ProductOnly
  /\ result.status = "success"
  /\ PriceCounters(result.counters) = <<0, 0>>
  /\ result.counters.product_new + result.counters.product_updated
       + result.counters.product_skipped > 0
  /\ faults = 0

\* An upload of result_json has succeeded: both kinds of counters moved.
C30_WitnessBoth ==
  /\ upc = "returned"
  /\ PriceAndProduct
  /\ result.status = "success"
  /\ result.counters.price_updated > 0
  /\ result.counters.product_new > 0
  /\ faults = 0

\* --------------------------------- properties: the notification's fallback
LoopbackHosts == {"localhost", "127.0.0.1"}

\* C31: a notification sends at most two requests; a second one is the first
\* one's URL over http, and it is sent only after an https request to localhost
\* or 127.0.0.1 has failed; a first request to any other host, or over http, is
\* never followed by another.
C31_FallbackScopedToLoopback ==
  /\ Len(sent) <= 2
  /\ Len(sent) = 2 =>
       /\ sent[1].scheme = "https"
       /\ sent[1].host \in LoopbackHosts
       /\ sent[1].outcome # "ok"
       /\ sent[2].scheme = "http"
       /\ sent[2].host = sent[1].host
  /\ (sent # <<>> /\ (sent[1].host \notin LoopbackHosts \/ sent[1].scheme = "http")) =>
       Len(sent) = 1

\* The https request to 127.0.0.1 failed on its certificate and the request
\* over http followed.
C31_Witness ==
  /\ upc = "returned"
  /\ result.status = "success"
  /\ Len(sent) = 2
  /\ sent[1] = Request("https", "127.0.0.1", "ssl-error")
  /\ sent[2].scheme = "http"

\* The https request to another host failed on its certificate: nothing followed.
C31_WitnessRemote ==
  /\ upc = "returned"
  /\ result.status = "success"
  /\ sent = <<Request("https", "emb.example", "ssl-error")>>

\* ------------------------------------------ properties: partial saves
\* The step of the full crawler that merges a page and stays in the page loop.
PageKept ==
  /\ ckind = "all"
  /\ cpc = "extract"
  /\ visited_pages' = visited_pages + 1

\* C32: with a period n > 0 the category's file is opened and rewritten with
\* the whole buffer after every n-th visited page, and after no other page;
\* with n <= 0 no page is followed by a partial save; a complete snapshot of
\* the category in hand is always a prefix of the buffer.
C32_PartialSaveEveryNth ==
  [][/\ PageKept =>
          IF cfg.partial_save_every > 0 /\ visited_pages' % cfg.partial_save_every = 0
          THEN cpc' = "partial_dump" /\ files' # files
          ELSE cpc' = "sleep" /\ files' = files
     /\ cpc = "partial_dump" =>
          /\ cfg.partial_save_every > 0
          /\ cpc' # cpc => files'[OutputDir(ckind)][CategoryName] = File(collected)
     /\ (cpc' \notin {"idle", "raised", "returned"} /\ cat_idx' <= Len(Categories)
           /\ files'[OutputDir(ckind')][Categories[cat_idx']].complete) =>
          IsPrefix(files'[OutputDir(ckind')][Categories[cat_idx']].data, collected')]_vars

\* Period 2: the first page was not saved, the second was; the file holds the
\* whole buffer of both pages.
C32_Witness ==
  /\ ckind = "all"
  /\ cpc = "sleep"
  /\ cfg.partial_save_every = 2
  /\ visited_pages = 2
  /\ Len(yields) = 2
  /\ ~yields[1]
  /\ ~yields[2]
  /\ CurrentSnapshot = File(collected)
  /\ finalWrites = 0

\* Period 1, second page merged after the first was saved: the file holds the
\* first page only, a proper prefix of the buffer.
C32_WitnessPrefix ==
  /\ ckind = "all"
  /\ cpc = "partial_dump"
  /\ cfg.partial_save_every = 1
  /\ visited_pages = 2
  /\ Len(collected) > 0

\* Period 0: two pages were visited and no file was written.
C32_WitnessDisabled ==
  /\ ckind = "all"
  /\ cfg.partial_save_every = 0
  /\ visited_pages = 2
  /\ cpc = "sleep"
  /\ Len(collected) > 0
  /\ ~CurrentSnapshot.exists

\* ------------------------------------------------ properties: termination
\* The crawler is inside the try block of a category.
InCategory == cpc \in {"loop_top", "pre_fetch", "fetch", "post_fetch", "extract",
                       "partial_dump", "sleep", "save", "dump", "exit_check"}

\* C33: a category that was entered is left, whatever the pages hold and
\* whatever the DOM says, and whenever the token is set or cleared; the full
\* crawler never has more visited pages than page_cap, and a sleep never has
\* more left than the page delay.
C33_CategoryCrawlTerminates ==
  /\ [](ckind = "all" /\ InCategory => visited_pages <= cfg.page_cap)
  /\ [](cpc = "sleep" => remain \in 0..cfg.page_delay)
  /\ (InCategory ~> ~InCategory)

\* The cap ended a category: the page range was open, the empty-page rule off,
\* every page had new records and the DOM never said that there is no next page.
C33_Witness ==
  /\ ckind = "all"
  /\ cpc = "cat_check"
  /\ lastExit.reason = "page-cap-reached"
  /\ cfg.page_cap = MaxPageCap
  /\ cfg.end_page = 0
  /\ cfg.empty_page_stop = 0
  /\ visited_pages = cfg.page_cap
  /\ \A i \in 1..Len(yields) : ~yields[i]
  /\ has_next \in {"unset", "True", "None"}

\* --------------------------------------- properties: redundant history
History(i) == IF emart_price[i].exists THEN emart_price[i].price_history ELSE <<>>

NoAdjacentDuplicates(h) ==
  \A k \in 1..(Len(h) - 1) : Pair(h[k]) # Pair(h[k + 1])

\* C34: uploads run one after another on a store whose histories have no two
\* neighbours with the same price pair: no history ever has two such
\* neighbours; and a record whose pair differs from the last entry is appended
\* even when an earlier entry already holds that pair.
C34_NoRedundantHistory ==
  /\ [](\A i \in DocKeys : NoAdjacentDuplicates(History(i)))
  /\ [][PriceSyncStep =>
          LET id == products[ridx].id
              info == PriceInfo(products[ridx])
              old == History(id)
              new == emart_price'[id].price_history
          IN (/\ faults' = faults
              /\ old # <<>>
              /\ Pair(old[Len(old)]) # Pair(info)
              /\ \E k \in 1..Len(old) : Pair(old[k]) = Pair(info)) =>
                new = Append(old, info)]_vars

\* The price of A went from 100/90 to 100/80 and back: three entries.
C34_Witness ==
  /\ Len(History("A")) = 3
  /\ Pair(History("A")[1]) = <<"100", "90">>
  /\ Pair(History("A")[2]) = <<"100", "80">>
  /\ Pair(History("A")[3]) = <<"100", "90">>

\* ------------------------------------------- properties: resumed uploads
\* The price collection after the price path has taken these records in order,
\* no store call failing (firebase_uploader 209-243).
RECURSIVE PriceFold(_, _)
PriceFold(store, recs) ==
  IF recs = <<>> THEN store
  ELSE LET r == Head(recs)
       IN PriceFold(IF r.id = "" THEN store
                    ELSE [store EXCEPT ![r.id] =
                            update_price_history(store[r.id], r.out_of_stock, r.quantity,
                                                 r.last_updated, PriceInfo(r), FALSE).doc],
                    Tail(recs))

\* An upload of a directory with prices was stopped inside a file after ridx - 1
\* records, no store call having failed; the file is still there.
StoppedInFile ==
  /\ upc = "returned"
  /\ result.status = "stopped"
  /\ result.message = "in-file"
  /\ directory_path \in {"result_json", "result_price_json"}
  /\ faults = 0

\* Among the records taken before the stop, an id occurs with two price pairs.
RepeatedIdTaken ==
  \E i, j \in 1..(ridx - 1) :
     /\ i < j
     /\ products[i].id # ""
     /\ products[i].id = products[j].id
     /\ Pair(products[i]) # Pair(products[j])

\* C35: after a stop inside a file, taking the retained file again from its
\* first record leaves the price documents that the uninterrupted upload, which
\* would have gone on with the remaining records, leaves.
C35_ResumeIsIdempotent ==
  StoppedInFile =>
    PriceFold(emart_price, products) = PriceFold(emart_price, SubSeq(products, ridx, Len(products)))

\* What does hold: the same, when no id was taken twice with different prices
\* before the stop.
C35_ResumeIdempotentWithoutRepeats ==
  (StoppedInFile /\ ~RepeatedIdTaken) =>
    PriceFold(emart_price, products) = PriceFold(emart_price, SubSeq(products, ridx, Len(products)))

\* The upload that came after the stop has taken the retained file: the
\* history of A holds the two prices of the file twice over.
C35_ExtraEntries ==
  /\ uploads = 2
  /\ upc = "returned"
  /\ result.status = "success"
  /\ directory_path = "result_price_json"
  /\ faults = 0
  /\ Len(History("A")) = 4
  /\ Pair(History("A")[1]) = Pair(History("A")[3])
  /\ Pair(History("A")[2]) = Pair(History("A")[4])

\* ------------------------------------------- properties: the counters
\* The upload is between its entry and its return.
InRun == upc \in {"entry", "glob", "file_loop", "record_loop", "final_check"}

\* History entries and product documents that one step adds, over the
\* document keys A, B and the empty key.
AppendedInStep ==
  LET len(coll, i) == IF coll[i].exists THEN Len(coll[i].price_history) ELSE 0
      gain(i) == len(emart_price', i) - len(emart_price, i)
  IN gain("A") + gain("B") + gain("")

CreatedInStep ==
  Cardinality({i \in DocKeys : ~emart_product[i].exists /\ emart_product'[i].exists})

\* C36: in every step of an upload no counter goes down; a record moves the
\* price counters by at most one in all and the product counters by at most one
\* in all; price_updated goes up by the number of history entries the step
\* appended and product_new by the number of product documents it created. The
\* counters start at zero, so each of the two equals its count for the run.
C36_CounterConsistency ==
  [][(InRun /\ upc' # "idle") =>
       /\ \A k \in DOMAIN counters : counters'[k] >= counters[k]
       /\ (counters'.price_updated + counters'.price_skipped)
            - (counters.price_updated + counters.price_skipped) \in {0, 1}
       /\ (counters'.product_new + counters'.product_updated + counters'.product_skipped)
            - (counters.product_new + counters.product_updated + counters.product_skipped)
            \in {0, 1}
       /\ counters'.price_updated - counters.price_updated = AppendedInStep
       /\ counters'.product_new - counters.product_new = CreatedInStep
       /\ upc \in {"entry", "glob"} => counters' = ZeroCounters]_vars

\* An upload of result_json on a store that held A: one price appended and one
\* skipped, one product created and one already there.
C36_Witness ==
  /\ upc = "returned"
  /\ directory_path = "result_json"
  /\ result.status = "success"
  /\ counters.price_updated >= 1
  /\ counters.price_skipped >= 1
  /\ counters.product_new >= 1
  /\ counters.product_updated + counters.product_skipped >= 1

\* ------------------------------------------- properties: who clears the token
\* A step that finds the token set and leaves it clear.
TokenCleared == cancel_event /\ ~cancel_event'

\* A scheduled job fires.
ScheduledFires == jobs' = jobs + 1

\* A run_* request is taken up by the event loop.
ManualTrigger == manuals' = manuals + 1

\* The run_* request taken up is for a crawl or an upload.
CrawlOrUploadTrigger == ManualTrigger /\ loop' \in {"run_crawl", "run_upload"}

\* A job that fires while the token is set is skipped: the token stays set, no
\* job body, crawler or uploader starts, no page is fetched, no snapshot is
\* written and the store is not used.
SkippedWhileSet ==
  (ScheduledFires /\ cancel_event) =>
     /\ cancel_event'
     /\ skipped' = skipped + 1
     /\ UNCHANGED <<jpc, job, files, crawlVars, crawlHist, syncVars, storeVars, syncHist>>

C38_PageRangeInvariant == PageRangeValid(dotenv)

\* An accepted request that carried the start page alone left the stored start
\* page above the stored end page.
C38_StartAboveEnd ==
  /\ env_resp.status = 200
  /\ env_resp.data.keys = {"EMART_START_PAGE"}
  /\ IsIntText(dotenv.EMART_END_PAGE)
  /\ dotenv.EMART_END_PAGE[1] < dotenv.EMART_START_PAGE[1]

\* Requests that carry both page keys, or the end page alone, keep the range in
\* order; a rejected request leaves the file as it was.
C38_EndPageChecked ==
  [][/\ env_resp'.status = 400 => dotenv' = dotenv
     /\ (env_resp'.status = 200 /\ "EMART_END_PAGE" \in env_resp'.data.keys)
          => PageRangeValid(dotenv')]_vars

\* ------------------------------- properties: the page range and the crawlers
\* The page keys of a crawler's .env, as the file save_env keeps.
PageKeys(e) ==
  [EMART_START_PAGE |-> e.EMART_START_PAGE, EMART_END_PAGE |-> e.EMART_END_PAGE,
   EMB_SERVER |-> ""]

\* save_env answers 200 to a request that carries both page keys of e.
SaveEnvAccepts(e) ==
  SaveEnvResult(DotenvAtStart,
                [keys |-> {"EMART_START_PAGE", "EMART_END_PAGE"},
                 EMART_START_PAGE |-> e.EMART_START_PAGE,
                 EMART_END_PAGE |-> e.EMART_END_PAGE,
                 EMB_SERVER |-> ""]).status = 200

\* C39: a price-only or non-price crawler started under a page range that
\* save_env accepts enters its category loop, as the full crawler does, and
\* does not fail before its first fetch.
C39_PriceCrawlersTakeEveryRange ==
  [][(/\ cpc = "idle"
      /\ cpc' # "idle"
      /\ \A e \in EnvChoices : SaveEnvAccepts(e) /\ PageRangeValid(PageKeys(e)))
       => cpc' = "cat_check"]_vars

\* A scheduled price run whose crawler raised before any fetch: no snapshot was
\* written and the token is clear, so the job ends without an upload.
C39_PriceRunReducedToNothing ==
  /\ jpc = "crawl"
  /\ job = "price"
  /\ cpc = "raised"
  /\ fetches = 0
  /\ ~cancel_event
  /\ files = NoFiles
  /\ uploads = 0

\* The full crawler takes every page range of the .env files enumerated: it is
\* never the one that raised.
C39_FullCrawlerNeverRaisesAtStart ==
  [][(cpc = "idle" /\ cpc' # "idle" /\ ckind' = "all") => cpc' = "cat_check"]_vars

\* ------------------------------------- properties: two uploads on one id
\* Whether history h holds an entry equal to e.
Holds(h, e) == \E k \in 1..Len(h) : h[k] = e

\* C40: while the 'all' upload and the 'price' upload interleave their reads
\* and writes on product A, the stored history only grows at its end (no entry
\* is lost or overwritten) and never has two neighbours with the same price
\* pair.
C40_AppendOnlyUnderInterleaving ==
  [][/\ IsPrefix(History("A"), History("A")')
     /\ NoAdjacentDuplicates(History("A")')]_vars

\* Both uploads are over, one of them appended an entry and answered
\* 'updated' for it, and the stored history does not hold that entry.
C40_EntryLost ==
  /\ \A w \in Writers : writers[w].pc = "done"
  /\ \E w \in Writers :
       \E k \in 1..Len(writers[w].appended) :
          ~Holds(History("A"), writers[w].appended[k])

\* Whatever the interleaving, the stored history never has two neighbours with
\* the same price pair.
C40_NoDuplicateNeighbours == NoAdjacentDuplicates(History("A"))

\* Both uploads are over and the stored history is shorter than it was at some
\* point of the run: the last write carried the history read before the other
\* upload appended two entries.
C40_HistoryShrank ==
  /\ \A w \in Writers : writers[w].pc = "done"
  /\ Len(writers["all"].appended) + Len(writers["price"].appended) >= 3
  /\ Len(History("A")) <= 2

====
